---------------------------- MODULE Spec2Model ----------------------------
(* LightWare GRF250 serial API: packet codec, response decoder and the     *)
(* managed request/response layer of src/serial_c_api/lw_serial_api.c.     *)
(* Bytes are integers 0..255, uint16_t values are integers modulo 2^16 and *)
(* the uint32_t sizes and counters, which stay far below 2^32, are plain   *)
(* integers; the uint32_t millisecond clock is a pair of 16-bit halves.    *)
(* Buffers are functions from 0-based indices, byte streams on the serial  *)
(* line are sequences.                                                     *)
EXTENDS Integers, Sequences, FiniteSets, TLC

(* ---------------------------------------------------------------------- *)
(* Program constants.                                                      *)
(* ---------------------------------------------------------------------- *)
LW_PACKET_START_BYTE == 170
LW_PACKET_SEND_SIZE == 160
LW_PACKET_RECV_SIZE == 64
LW_REQUEST_RETRIES == 4
LW_RESPONSE_TIMEOUT_MS == 1000
LW_ANY_COMMAND == 255
UINT8_MAX == 255

LW_RESULT_SUCCESS == "SUCCESS"
LW_RESULT_ERROR == "ERROR"
LW_RESULT_AGAIN == "AGAIN"
LW_RESULT_TIMEOUT == "TIMEOUT"
LW_RESULT_INVALID_PARAMETER == "INVALID_PARAMETER"
LW_RESULT_INCORRECT_COMMAND_ID == "INCORRECT_COMMAND_ID"
LW_RESULT_EXCEEDED_RETRIES == "EXCEEDED_RETRIES"

LW_PARSESTATE_START == "START"
LW_PARSESTATE_FLAGS1 == "FLAGS1"
LW_PARSESTATE_FLAGS2 == "FLAGS2"
LW_PARSESTATE_PAYLOAD == "PAYLOAD"
LW_PARSESTATE_DONE == "DONE"

(* ---------------------------------------------------------------------- *)
(* Fixed-width arithmetic of the C code.                                   *)
(* ---------------------------------------------------------------------- *)
U16 == 65536

(* a ^ b and a | b of C on values below 2^16, from per-byte tables.          *)
RECURSIVE XorBits(_, _)
XorBits(a, b) ==
    IF a = 0 THEN b
    ELSE IF b = 0 THEN a
    ELSE ((a + b) % 2) + 2 * XorBits(a \div 2, b \div 2)

RECURSIVE OrBits(_, _)
OrBits(a, b) ==
    IF a = 0 THEN b
    ELSE IF b = 0 THEN a
    ELSE (IF a % 2 = 1 \/ b % 2 = 1 THEN 1 ELSE 0) + 2 * OrBits(a \div 2, b \div 2)

XorByte == [a \in 0..255 |-> [b \in 0..255 |-> XorBits(a, b)]]

BitXor(a, b) ==
    XorByte[a % 256][b % 256] + 256 * XorByte[a \div 256][b \div 256]

BitOr(a, b) == OrBits(a, b)

Pow2(n) == 2 ^ n

Shl(a, n) == a * Pow2(n)
Shr(a, n) == a \div Pow2(n)

(* uint32_t clock values as [hi, lo], the value being hi * 2^16 + lo.       *)
Zero32 == [hi |-> 0, lo |-> 0]

(* a + n modulo 2^32, for a number n below 2^31                            *)
Add32(a, n) ==
    LET lo == a.lo + (n % U16)
    IN  [hi |-> (a.hi + (n \div U16) + (lo \div U16)) % U16, lo |-> lo % U16]

Lt32(a, b) == a.hi < b.hi \/ (a.hi = b.hi /\ a.lo < b.lo)

(* a - b modulo 2^32                                                       *)
Sub32(a, b) ==
    LET borrow == IF a.lo < b.lo THEN 1 ELSE 0
    IN  [hi |-> (a.hi - b.hi - borrow + U16) % U16,
         lo |-> (a.lo - b.lo + U16) % U16]

(* ---------------------------------------------------------------------- *)
(* lw_create_crc: one pass of the loop body, then the loop.                *)
(* ---------------------------------------------------------------------- *)
(* variant: the second shift is applied to the code as it was before the   *)
(* first shift                                                             *)
crc_step_uncumulated(crc, b) ==
    LET code0 == Shr(crc, 8)
        code1 == BitXor(code0, b)
        code2 == BitXor(code1, Shr(code1, 4))
        crc1  == Shl(crc, 8) % U16
        crc2  == BitXor(crc1, code2)
        crc3  == BitXor(crc2, Shl(code2, 5) % U16)
    IN  BitXor(crc3, Shl(code2, 7) % U16)

crc_step(crc, b) ==
    LET code0 == Shr(crc, 8)
        code1 == BitXor(code0, b)
        code2 == BitXor(code1, Shr(code1, 4))
        crc1  == Shl(crc, 8) % U16
        crc2  == BitXor(crc1, code2)
        code3 == Shl(code2, 5) % U16
        crc3  == BitXor(crc2, code3)
        code4 == Shl(code3, 7) % U16
    IN  BitXor(crc3, code4)

RECURSIVE crc_loop(_, _, _, _)
crc_loop(data, size, i, crc) ==
    IF i >= size THEN crc
    ELSE LET next == crc_step(crc, data[i])
         IN  IF next >= 0 THEN crc_loop(data, size, i + 1, next) ELSE next

lw_create_crc(data, size) == crc_loop(data, size, 0, 0)

(* ---------------------------------------------------------------------- *)
(* lw_response and lw_init_response.                                       *)
(* ---------------------------------------------------------------------- *)
ZeroResponse ==
    [data |-> [i \in 0..(LW_PACKET_RECV_SIZE - 1) |-> 0],
     data_size |-> 0,
     payload_size |-> 0,
     parse_state |-> LW_PARSESTATE_START,
     command_id |-> 0]

(* variant: the command id is not set back *)
lw_init_response_keepid(r) ==
    [r EXCEPT !.data_size = 0,
              !.payload_size = 0,
              !.parse_state = LW_PARSESTATE_START]

lw_init_response(r) ==
    [r EXCEPT !.data_size = 0,
              !.payload_size = 0,
              !.parse_state = LW_PARSESTATE_START,
              !.command_id = UINT8_MAX]

(* ---------------------------------------------------------------------- *)
(* lw_feed_response: the response after the byte and the returned result.  *)
(* ---------------------------------------------------------------------- *)
(* variant: the length field is not tested *)
SizeInRange_any(payload_size) == TRUE

(* variant: the largest payload size is refused too *)
SizeInRange_tight(payload_size) ==
    ~(payload_size >= (LW_PACKET_RECV_SIZE - 5) \/ payload_size < 1)

SizeInRange(payload_size) ==
    ~(payload_size > (LW_PACKET_RECV_SIZE - 5) \/ payload_size < 1)

(* variant: the checksum is not compared *)
CrcMatches_any(crc, verify_crc) == TRUE

CrcMatches(crc, verify_crc) == crc = verify_crc

(* variant: the response is initialized again after a checksum mismatch *)
OnCrcMismatch_init(r) == lw_init_response(r)

(* variant: the state is kept after a checksum mismatch *)
OnCrcMismatch_stay(r) == r

OnCrcMismatch(r) == [r EXCEPT !.parse_state = LW_PARSESTATE_START]

(* variant: any byte starts a packet *)
FeedStart_anybyte(r, data) ==
    [resp |-> [r EXCEPT !.parse_state = LW_PARSESTATE_FLAGS1,
                        !.data[0] = data],
     result |-> LW_RESULT_AGAIN]

FeedStart(r, data) ==
    IF data = LW_PACKET_START_BYTE
    THEN [resp |-> [r EXCEPT !.parse_state = LW_PARSESTATE_FLAGS1,
                             !.data[0] = LW_PACKET_START_BYTE],
          result |-> LW_RESULT_AGAIN]
    ELSE [resp |-> r, result |-> LW_RESULT_AGAIN]

FeedFlags1(r, data) ==
    [resp |-> [r EXCEPT !.parse_state = LW_PARSESTATE_FLAGS2,
                        !.data[1] = data],
     result |-> LW_RESULT_AGAIN]

(* variant: the three header bytes are added to data_size *)
FeedFlags2_append(r, data) ==
    LET psize == Shr(BitOr(r.data[1], Shl(data, 8)), 6)
    IN  [resp |-> [r EXCEPT !.parse_state =
                                IF SizeInRange(psize)
                                THEN LW_PARSESTATE_PAYLOAD
                                ELSE LW_PARSESTATE_START,
                            !.data[2] = data,
                            !.data_size = r.data_size + 3,
                            !.payload_size = psize],
         result |-> LW_RESULT_AGAIN]

FeedFlags2(r, data) ==
    LET psize == Shr(BitOr(r.data[1], Shl(data, 8)), 6)
    IN  [resp |-> [r EXCEPT !.parse_state =
                                IF SizeInRange(psize)
                                THEN LW_PARSESTATE_PAYLOAD
                                ELSE LW_PARSESTATE_START,
                            !.data[2] = data,
                            !.data_size = 3,
                            !.payload_size = psize],
         result |-> LW_RESULT_AGAIN]

FeedPayload(r, data) ==
    LET idx  == r.data_size
        buf  == IF idx \in DOMAIN r.data
                THEN [r.data EXCEPT ![idx] = data]
                ELSE r.data
        size == idx + 1
        r1   == [r EXCEPT !.data = buf, !.data_size = size]
    IN  IF size = r.payload_size + 5
        THEN LET crc == BitOr(buf[size - 2], Shl(buf[size - 1], 8)) % U16
                 verify_crc == lw_create_crc(buf, (size - 2) % U16)
             IN  IF CrcMatches(crc, verify_crc)
                 THEN [resp |-> [r1 EXCEPT !.parse_state = LW_PARSESTATE_DONE,
                                           !.command_id = buf[3]],
                       result |-> LW_RESULT_SUCCESS]
                 ELSE [resp |-> OnCrcMismatch(r1), result |-> LW_RESULT_AGAIN]
        ELSE [resp |-> r1, result |-> LW_RESULT_AGAIN]

(* variant: no re-initialisation in DONE *)
ReinitIfDone_keep(r) == r

ReinitIfDone(r) ==
    IF r.parse_state = LW_PARSESTATE_DONE THEN lw_init_response(r) ELSE r

FeedInState(r, data) ==
    CASE r.parse_state = LW_PARSESTATE_START   -> FeedStart(r, data)
      [] r.parse_state = LW_PARSESTATE_FLAGS1  -> FeedFlags1(r, data)
      [] r.parse_state = LW_PARSESTATE_FLAGS2  -> FeedFlags2(r, data)
      [] r.parse_state = LW_PARSESTATE_PAYLOAD -> FeedPayload(r, data)
      [] r.parse_state = LW_PARSESTATE_DONE    ->
             [resp |-> r, result |-> LW_RESULT_ERROR]

(* variant: the byte fed in DONE only re-initialises *)
lw_feed_response_drop(response, data) ==
    IF response.parse_state = LW_PARSESTATE_DONE
    THEN [resp |-> lw_init_response(response), result |-> LW_RESULT_AGAIN]
    ELSE FeedInState(response, data)

lw_feed_response(response, data) == FeedInState(ReinitIfDone(response), data)

(* ---------------------------------------------------------------------- *)
(* lw_create_packet: the bytes written to packet_buffer, as a sequence     *)
(* (element i+1 is packet_buffer[i]); its length is the returned size.     *)
(* The host is little-endian: byte 0 of a uint16_t is its low byte.        *)
(* ---------------------------------------------------------------------- *)
AsBuffer(s) == [i \in 0..(Len(s) - 1) |-> s[i + 1]]

lw_create_packet(command_id, write, data) ==
    LET data_size == Len(data)
        payload_length == 1 + data_size
        flags == BitOr(Shl(payload_length, 6), write % 2) % U16
        head == <<LW_PACKET_START_BYTE, flags % 256, Shr(flags, 8), command_id>> \o data
        crc == lw_create_crc(AsBuffer(head), (4 + data_size) % U16)
    IN  head \o <<crc % 256, Shr(crc, 8)>>

(* lw_parse_packet_data: the size bytes copied from packet_buffer+4+offset *)
lw_parse_packet_data(packet_buffer, size, offset) ==
    [i \in 1..size |-> packet_buffer[4 + offset + (i - 1)]]

(* ---------------------------------------------------------------------- *)
(* lw_request, lw_init_request and lw_create_request_read.                 *)
(* ---------------------------------------------------------------------- *)
ZeroRequest ==
    [data |-> [i \in 0..(LW_PACKET_SEND_SIZE - 1) |-> 0],
     data_size |-> 0,
     command_id |-> 0]

lw_init_request(request, command_id, size) ==
    [request EXCEPT !.data_size = size, !.command_id = command_id]

(* the packet written at the start of the request buffer                   *)
WritePacket(buffer, packet) ==
    [i \in DOMAIN buffer |-> IF i < Len(packet) THEN packet[i + 1] ELSE buffer[i]]

(* variant: the packet is built with the write bit set *)
lw_create_request_read_aswrite(request, command_id) ==
    LET packet == lw_create_packet(command_id, 1, <<>>)
    IN  lw_init_request([request EXCEPT !.data = WritePacket(request.data, packet)],
                        command_id, Len(packet))

lw_create_request_read(request, command_id) ==
    LET packet == lw_create_packet(command_id, 0, <<>>)
    IN  lw_init_request([request EXCEPT !.data = WritePacket(request.data, packet)],
                        command_id, Len(packet))

(* the four bytes of a uint32_t value, low byte first                      *)
Uint32Bytes(value) ==
    <<value % 256, (value \div 256) % 256, (value \div 65536) % 256,
      (value \div 16777216) % 256>>

(* the two bytes of a uint16_t value, low byte first                       *)
Uint16Bytes(value) == <<value % 256, (value \div 256) % 256>>

(* variant: the value is written high byte first *)
lw_create_request_write_uint16_swapped(request, command_id, value) ==
    LET packet == lw_create_packet(command_id, 1,
                                   <<(value \div 256) % 256, value % 256>>)
    IN  lw_init_request([request EXCEPT !.data = WritePacket(request.data, packet)],
                        command_id, Len(packet))

lw_create_request_write_uint16(request, command_id, value) ==
    LET packet == lw_create_packet(command_id, 1, Uint16Bytes(value))
    IN  lw_init_request([request EXCEPT !.data = WritePacket(request.data, packet)],
                        command_id, Len(packet))

lw_create_request_write_uint32(request, command_id, value) ==
    LET packet == lw_create_packet(command_id, 1, Uint32Bytes(value))
    IN  lw_init_request([request EXCEPT !.data = WritePacket(request.data, packet)],
                        command_id, Len(packet))

(* ---------------------------------------------------------------------- *)
(* The decisions of lw_wait_for_next_response and of                       *)
(* lw_send_request_get_response.                                           *)
(* ---------------------------------------------------------------------- *)
CONTINUE == "CONTINUE"

(* time_left_ms of one loop iteration                                      *)
TimeLeft(timeout_ms, current_time, timeout_time) ==
    IF timeout_ms # 0 /\ Lt32(current_time, timeout_time)
    THEN Sub32(timeout_time, current_time)
    ELSE Zero32

(* variant: the command id is not compared *)
CommandMatches_any(command_id, r) == TRUE

CommandMatches(command_id, r) ==
    command_id = LW_ANY_COMMAND \/ r.command_id = command_id

(* the branches taken when serial_receive returned 0                       *)
(* variant: the time left is tested before timeout_ms *)
OnNoData_swapped(timeout_ms, time_left_ms) ==
    IF time_left_ms = Zero32 THEN LW_RESULT_TIMEOUT
    ELSE IF timeout_ms = 0 THEN LW_RESULT_AGAIN
    ELSE CONTINUE

OnNoData(timeout_ms, time_left_ms) ==
    IF timeout_ms = 0 THEN LW_RESULT_AGAIN
    ELSE IF time_left_ms = Zero32 THEN LW_RESULT_TIMEOUT
    ELSE CONTINUE

(* variant: the value -1 of serial_receive is not tested *)
ReceiveFailed_never(bytes_read) == FALSE

(* bytes_read == -1                                                        *)
ReceiveFailed(bytes_read) == bytes_read = -1

(* the branch taken when serial_receive returned a byte and it was fed     *)
(* variant: a verified packet with another command id ends the wait *)
OnFed_strict(fed_out, command_id) ==
    IF fed_out.result = LW_RESULT_SUCCESS
    THEN IF CommandMatches(command_id, fed_out.resp)
         THEN LW_RESULT_SUCCESS
         ELSE LW_RESULT_ERROR
    ELSE CONTINUE

OnFed(fed_out, command_id) ==
    IF fed_out.result = LW_RESULT_SUCCESS /\ CommandMatches(command_id, fed_out.resp)
    THEN LW_RESULT_SUCCESS
    ELSE CONTINUE

(* what one loop iteration does with the value serial_receive returned and *)
(* the outcome fed of feeding the byte: a result to return, or CONTINUE    *)
WaitOutcome(bytes_read, fed_out, command_id, timeout_ms, time_left_ms) ==
    IF ReceiveFailed(bytes_read) THEN LW_RESULT_ERROR
    ELSE IF bytes_read > 0
    THEN OnFed(fed_out, command_id)
    ELSE OnNoData(timeout_ms, time_left_ms)

(* variant: a wait result is handed to the caller whatever it is *)
Propagates_all(ret) == TRUE

(* lw_send_request_get_response returns the result of the wait when it is  *)
(* SUCCESS or ERROR, and goes on to the next attempt otherwise             *)
Propagates(ret) == ret \in {LW_RESULT_SUCCESS, LW_RESULT_ERROR}

(* variant: only the four header bytes are handed to serial_send *)
SendArgs_header(req) == [data |-> req.data, size |-> 4]

(* the buffer and size handed to serial_send                               *)
SendArgs(req) == [data |-> req.data, size |-> req.data_size]

(* variant: the value serial_send returned is not tested *)
SendFailed_never(sent) == FALSE

(* serial_send(...) == 0                                                   *)
SendFailed(sent) == sent = 0

(* while (attempts--): the test of the value before the decrement          *)
(* variant: while (--attempts) *)
HasAttempt_predecrement(n) == n - 1 # 0

HasAttempt(n) == n # 0

(* ---------------------------------------------------------------------- *)
(* Bounds and input sets of the model.                                     *)
(* ---------------------------------------------------------------------- *)
MaxItems == 2
MaxElapsed == 1500
MaxCount == 2
MaxCalls == 2

CmdIds == {5, 170}
WriteFlags == {0, 1}
LongPayload == [i \in 1..(LW_PACKET_RECV_SIZE - 6) |-> (167 + 3 * i) % 256]
ShortPayloads == {<<>>, <<170, 7>>}
NoiseBytes == {0, 170}
CrcBits == 0..15

(* (command id, write flag, payload) of the packets the peer sends: every  *)
(* combination with a short payload, and two with the longest payload the  *)
(* receive buffer takes.                                                   *)
PacketInputs ==
    (CmdIds \X WriteFlags \X ShortPayloads)
        \cup {<<5, 0, LongPayload>>, <<170, 1, LongPayload>>}

(* (packet, checksum bit) of the corrupted packets: every bit of a packet  *)
(* without data, of one with data, and the two end bits of a longest one.  *)
CorruptInputs ==
    ({<<5, 0, <<>>>>, <<170, 1, <<170, 7>>>>} \X CrcBits)
        \cup ({<<5, 0, LongPayload>>} \X {0, 15})

(* The packet with one bit of its two trailing checksum bytes flipped:     *)
(* bits 0..7 are in the low checksum byte, bits 8..15 in the high one.     *)
FlipBit(byte, bit) ==
    IF Shr(byte, bit) % 2 = 1 THEN byte - Pow2(bit) ELSE byte + Pow2(bit)

FlipCrcBit(packet, bit) ==
    LET pos == IF bit < 8 THEN Len(packet) - 1 ELSE Len(packet)
    IN  [packet EXCEPT ![pos] = FlipBit(packet[pos], bit % 8)]

(* ---------------------------------------------------------------------- *)
(* State.                                                                  *)
(* ---------------------------------------------------------------------- *)
VARIABLES
    response,     \* device->response (lw_response)
    request,      \* device->request (lw_request)
    pc,           \* "idle", "send" (before a send attempt) or "wait" (in the loop)
    caller,       \* the operation in progress or last run: "none", "wait", "request"
    wait,         \* command_id, timeout_ms and timeout_time of the running wait
    attempts,     \* attempts of lw_send_request_get_response
    result,       \* result the latest operation returned, "NONE" before
    wait_result,  \* result the latest lw_wait_for_next_response returned
    entryTime,    \* get_time_ms at the entry of the running wait
    elapsed,      \* milliseconds that passed since then
    wire,         \* bytes on the serial line that were not read yet
    item,         \* what the peer last put on the line
    fed,          \* number of bytes of item read so far
    prevItem,     \* the item before item
    feedResult,   \* result of the latest direct lw_feed_response call
    items,        \* number of items fed directly so far
    okRun,        \* every item fed directly so far was a valid packet
    nSuccess,     \* number of SUCCESS results of the direct feeds
    lastDone,     \* <<command id>> of the packet of the latest SUCCESS of a direct feed
    obs,          \* what the running wait did so far (callback counts, ...)
    sendObs,      \* what the running request did so far (sends, wait results)
    crc_data,     \* bytes handed to a direct lw_create_crc call
    crc_value,    \* value that call returned, <<>> before it
    set_arg,      \* operation and argument of the latest lw_grf250_set_... call
    hardware_version, \* progress of lw_grf250_get_hardware_version and the bytes
                  \* copied to *hardware_version
    calls,        \* number of operations of the managed layer started so far
    fresh,        \* a second lw_response, initialized when response went back to
                  \* START and fed the same bytes since then
    freshResult,  \* result of the latest lw_feed_response call on fresh
    token_call,   \* progress of lw_grf250_reset / lw_grf250_save_parameters: the
                  \* operation, its step, the token read and the result of the read
    alarm_a_distance \* result of lw_grf250_parse_response_alarm_a_distance and the
                  \* value it stored in *distance_cm

devVars == <<response, request>>
callVars == <<pc, caller, wait, attempts, result, wait_result>>
clockVars == <<entryTime, elapsed>>
lineVars == <<wire, item, fed, prevItem>>
feedObs == <<feedResult, items, okRun, nSuccess, lastDone>>
callObs == <<obs, sendObs, calls>>
apiVars == <<crc_data, crc_value, set_arg, hardware_version, token_call,
            alarm_a_distance>>
twinVars == <<fresh, freshResult>>
vars == <<response, request, pc, caller, wait, attempts, result, wait_result,
          entryTime, elapsed, wire, item, fed, prevItem, feedResult, items,
          okRun, nSuccess, lastDone, obs, sendObs, calls, crc_data, crc_value, set_arg, hardware_version,
          fresh, freshResult, token_call, alarm_a_distance>>

NoItem == [kind |-> "none", command_id |-> 0, write |-> 0, payload |-> <<>>,
           size |-> 0, aligned |-> TRUE, reply_to |-> 0]

NoWait == [command_id |-> 0, timeout_ms |-> 0, timeout_time |-> Zero32]

(* What a wait did so far: calls of serial_receive and get_time_ms (the    *)
(* code of the wait holds no call of sleep), the size and timeout of the   *)
(* latest serial_receive and the value it returned.                        *)
NoObs == [rxCalls |-> 0, timeCalls |-> 0, sleepCalls |-> 0, lastRx |-> <<0, Zero32>>,
          lastRead |-> <<>>]

NoGet == [state |-> "none", bytes |-> <<>>]

NoSetArg == [op |-> "none", value |-> 0]

NoSendObs == [sends |-> 0, failedSends |-> 0, waitResults |-> <<>>, sent |-> <<>>]

NoTwin == [on |-> FALSE, resp |-> ZeroResponse]

NoAlarm == [state |-> "none", result |-> "NONE", value |-> Zero32]

NoTokenCall == [op |-> "none", step |-> "none", token |-> 0, read |-> "NONE"]

AtPacketBoundary(r) ==
    r.parse_state \in {LW_PARSESTATE_START, LW_PARSESTATE_DONE}

(* lw_create_callback_device: the zeroed device with its request and       *)
(* response initialized.                                                   *)
lw_create_callback_device ==
    [request |-> lw_init_request(ZeroRequest, 0, 0),
     response |-> lw_init_response(ZeroResponse)]

Init ==
    /\ response = lw_create_callback_device.response
    /\ request = lw_create_callback_device.request
    /\ pc = "idle"
    /\ caller = "none"
    /\ wait = NoWait
    /\ attempts = 0
    /\ result = "NONE"
    /\ wait_result = "NONE"
    /\ entryTime = Zero32
    /\ elapsed = 0
    /\ wire = <<>>
    /\ item = NoItem
    /\ fed = 0
    /\ prevItem = NoItem
    /\ feedResult = "NONE"
    /\ items = 0
    /\ okRun = TRUE
    /\ nSuccess = 0
    /\ lastDone = <<>>
    /\ fresh = NoTwin
    /\ freshResult = "NONE"
    /\ obs = NoObs
    /\ sendObs = NoSendObs
    /\ calls = 0
    /\ crc_data = <<>>
    /\ crc_value = <<>>
    /\ set_arg = NoSetArg
    /\ hardware_version = NoGet
    /\ token_call = NoTokenCall
    /\ alarm_a_distance = NoAlarm

(* ---------------------------------------------------------------------- *)
(* The decoder driven directly (unmanaged use): the peer puts packets,     *)
(* corrupted packets and noise on the line, the caller reads one byte at a *)
(* time and hands it to lw_feed_response.                                  *)
(* ---------------------------------------------------------------------- *)
ItemOf(kind, c, w, p, bytes) ==
    [kind |-> kind, command_id |-> c, write |-> w, payload |-> p,
     size |-> Len(bytes), aligned |-> AtPacketBoundary(response), reply_to |-> 0]

(* The peer puts the next thing on the line once the line was drained.     *)
PutOnLine(kind, c, w, p, bytes) ==
    /\ wire = <<>>
    /\ items < MaxItems
    /\ wire' = bytes
    /\ item' = ItemOf(kind, c, w, p, bytes)
    /\ prevItem' = item
    /\ fed' = 0
    /\ items' = items + 1
    /\ okRun' = (okRun /\ kind = "valid")
    /\ UNCHANGED <<devVars, callVars, clockVars, callObs, feedResult, nSuccess, lastDone, apiVars, twinVars>>

(* The packets the peer can send, built once by lw_create_packet.          *)
PacketBytes == [t \in PacketInputs |-> lw_create_packet(t[1], t[2], t[3])]
CorruptBytes == [t \in CorruptInputs |-> FlipCrcBit(PacketBytes[t[1]], t[2])]

SendValidPacket ==
    \E t \in PacketInputs :
        PutOnLine("valid", t[1], t[2], t[3], PacketBytes[t])

SendCorruptPacket ==
    \E t \in CorruptInputs :
        PutOnLine("badcrc", t[1][1], t[1][2], t[1][3], CorruptBytes[t])

SendNoise ==
    \E b \in NoiseBytes : PutOnLine("noise", 0, 0, <<>>, <<b>>)

FeedStep ==
    /\ wire # <<>>
    /\ LET out == lw_feed_response(response, Head(wire))
       IN  /\ response' = out.resp
           /\ feedResult' = out.result
           /\ nSuccess' = IF out.result = LW_RESULT_SUCCESS
                          THEN nSuccess + 1 ELSE nSuccess
           /\ lastDone' = IF out.result = LW_RESULT_SUCCESS
                          THEN <<out.resp.data[3]>> ELSE lastDone
    /\ wire' = Tail(wire)
    /\ fed' = fed + 1
    /\ UNCHANGED <<request, callVars, clockVars, callObs, item, prevItem, items, okRun, apiVars>>

FeedByte == FeedStep /\ UNCHANGED twinVars

NextFeed == SendValidPacket \/ SendCorruptPacket \/ SendNoise \/ FeedByte

SpecFeed == Init /\ [][NextFeed]_vars

(* ---------------------------------------------------------------------- *)
(* The managed layer: lw_wait_for_next_response and                        *)
(* lw_send_request_get_response against the four callbacks.                *)
(* ---------------------------------------------------------------------- *)
(* Clock values at the entry of a wait: 523752 (the deadline carries into  *)
(* the high half) and 2^32 - 500 (the deadline wraps).                     *)
StartTimes ==
    {[hi |-> 7, lo |-> 65000], [hi |-> 65535, lo |-> 65036]}

TickSteps == {500}

(* (command id, write flag, payload) of what the device sends unasked      *)
StreamInputs == {<<5, 0, <<>>>>, <<170, 0, <<>>>>}
StreamCorrupt == {<<<<5, 0, <<>>>>, 0>>}

(* command ids the caller asks for; the stream also holds command 170      *)
RequestCommands == {5}
WaitCommands == RequestCommands \cup {LW_ANY_COMMAND}
WaitTimeouts == {0, LW_RESPONSE_TIMEOUT_MS}

Saturate(n) == IF n > MaxCount THEN MaxCount ELSE n

(* device->get_time_ms(device)                                             *)
get_time_ms == Add32(entryTime, elapsed)

(* the entry of lw_wait_for_next_response, up to the loop                  *)
EnterWait(c, t, now) ==
    /\ wait' = [command_id |-> c, timeout_ms |-> t,
                timeout_time |-> IF t # 0 THEN Add32(now, t) ELSE Zero32]
    /\ entryTime' = now
    /\ elapsed' = 0
    /\ obs' = [NoObs EXCEPT !.timeCalls = IF t # 0 THEN 1 ELSE 0]
    /\ wait_result' = "NONE"
    /\ pc' = "wait"

CallWait ==
    /\ pc = "idle"
    /\ calls < MaxCalls
    /\ calls' = calls + 1
    /\ \E c \in WaitCommands, t \in WaitTimeouts :
         \E now \in (IF t # 0 THEN StartTimes ELSE {Zero32}) :
             EnterWait(c, t, now)
    /\ caller' = "wait"
    /\ result' = "NONE"
    /\ sendObs' = NoSendObs
    /\ UNCHANGED <<devVars, attempts, lineVars, feedObs, apiVars, twinVars>>

(* a managed read (lw_grf250_get_...): the request is built and            *)
(* lw_send_request_get_response starts                                     *)
CallRequest ==
    /\ pc = "idle"
    /\ calls < MaxCalls
    /\ calls' = calls + 1
    /\ \E c \in RequestCommands : request' = lw_create_request_read(request, c)
    /\ attempts' = LW_REQUEST_RETRIES
    /\ caller' = "request"
    /\ pc' = "send"
    /\ result' = "NONE"
    /\ wait_result' = "NONE"
    /\ sendObs' = NoSendObs
    /\ UNCHANGED <<response, wait, clockVars, lineVars, feedObs, obs, apiVars, twinVars>>

(* values serial_send may return: 0, a partial count, the full size        *)
SendResults == {0, 1, request.data_size}

(* one pass of while (attempts--): the send and the entry of the wait, or  *)
(* the end of the loop                                                     *)
SendAttemptWith(results) ==
    /\ pc = "send"
    /\ attempts' = attempts - 1
    /\ IF HasAttempt(attempts)
       THEN \E sent \in results :
               /\ sendObs' = [sendObs EXCEPT !.sends = @ + 1,
                                             !.failedSends = IF sent = 0 THEN @ + 1 ELSE @,
                                             !.sent = <<SendArgs(request)>>]
               /\ IF SendFailed(sent)
                  THEN /\ pc' = "idle"
                       /\ result' = LW_RESULT_ERROR
                       /\ UNCHANGED <<wait, wait_result, clockVars, obs>>
                  ELSE /\ \E now \in StartTimes :
                              EnterWait(request.command_id, LW_RESPONSE_TIMEOUT_MS, now)
                       /\ UNCHANGED result
       ELSE /\ pc' = "idle"
            /\ result' = LW_RESULT_EXCEEDED_RETRIES
            /\ UNCHANGED <<wait, wait_result, clockVars, obs, sendObs>>
    /\ UNCHANGED <<devVars, caller, lineVars, feedObs, calls, apiVars, twinVars>>

SendAttempt == SendAttemptWith(SendResults)

(* values serial_receive may return: -1, 0 (nothing arrived yet, or the    *)
(* timeout ran out), or 1 with the next byte of the line                   *)
ReceiveResults == {-1, 0} \cup (IF wire # <<>> THEN {1} ELSE {})

(* one iteration of the loop of lw_wait_for_next_response, and the return  *)
(* to lw_send_request_get_response when that is the caller                 *)
WaitIter ==
    /\ pc = "wait"
    /\ \E bytes_read \in ReceiveResults :
         LET current_time == IF wait.timeout_ms # 0 THEN get_time_ms ELSE Zero32
             time_left_ms == TimeLeft(wait.timeout_ms, current_time, wait.timeout_time)
             out == IF bytes_read > 0
                    THEN lw_feed_response(response, Head(wire))
                    ELSE [resp |-> response, result |-> "NONE"]
             ret == WaitOutcome(bytes_read, out, wait.command_id,
                                wait.timeout_ms, time_left_ms)
         IN  /\ response' = out.resp
             /\ wire' = IF bytes_read > 0 THEN Tail(wire) ELSE wire
             /\ fed' = IF bytes_read > 0 THEN fed + 1 ELSE fed
             /\ obs' = [obs EXCEPT
                          !.rxCalls = Saturate(@ + 1),
                          !.timeCalls = IF wait.timeout_ms # 0 THEN Saturate(@ + 1) ELSE @,
                          !.lastRx = <<1, time_left_ms>>,
                          !.lastRead = <<bytes_read>>]
             /\ IF ret = CONTINUE
                THEN UNCHANGED <<pc, result, wait_result, sendObs>>
                ELSE /\ wait_result' = ret
                     /\ sendObs' = IF caller = "request"
                                   THEN [sendObs EXCEPT !.waitResults = Append(@, ret)]
                                   ELSE sendObs
                     /\ IF caller = "request" /\ ~Propagates(ret)
                        THEN pc' = "send" /\ UNCHANGED result
                        ELSE pc' = "idle" /\ result' = ret
    /\ UNCHANGED <<request, caller, wait, attempts, clockVars, item, prevItem, feedObs, calls, apiVars, twinVars>>

(* time passes while a wait is running                                     *)
Tick ==
    /\ pc = "wait"
    /\ wait.timeout_ms # 0
    /\ \E d \in TickSteps :
           /\ elapsed + d <= MaxElapsed
           /\ elapsed' = elapsed + d
    /\ UNCHANGED <<devVars, callVars, entryTime, lineVars, feedObs, callObs, apiVars, twinVars>>

(* the device sends something unasked once the line was drained            *)
DeviceSends ==
    /\ wire = <<>>
    /\ \E kind \in {"valid", "badcrc"} :
         \E t \in (IF kind = "valid" THEN StreamInputs ELSE StreamCorrupt) :
             LET bytes == IF kind = "valid" THEN PacketBytes[t] ELSE CorruptBytes[t]
                 p == IF kind = "valid" THEN t ELSE t[1]
             IN  /\ wire' = bytes
                 /\ item' = ItemOf(kind, p[1], p[2], p[3], bytes)
    /\ fed' = 0
    /\ UNCHANGED <<devVars, callVars, clockVars, prevItem, feedObs, callObs, apiVars, twinVars>>

(* bytes that are no packet: a byte that is not the start byte, and a      *)
(* header whose length field is 0                                          *)
StreamJunk == {<<0>>, <<LW_PACKET_START_BYTE, 0, 0>>}

(* line noise reaches the host once the line was drained                   *)
DeviceSendsJunk ==
    /\ wire = <<>>
    /\ \E bytes \in StreamJunk :
           /\ wire' = bytes
           /\ item' = ItemOf("noise", 0, 0, <<>>, bytes)
    /\ fed' = 0
    /\ UNCHANGED <<devVars, callVars, clockVars, prevItem, feedObs, callObs, apiVars, twinVars>>

Next ==
    \/ CallWait \/ CallRequest \/ SendAttempt \/ WaitIter \/ Tick
    \/ DeviceSends \/ DeviceSendsJunk

Spec == Init /\ [][Next]_vars

(* ---------------------------------------------------------------------- *)
(* Properties of the decoder (checked under SpecFeed).                     *)
(* ---------------------------------------------------------------------- *)
(* The packet held by the response is the one item describes.              *)
HoldsItem ==
    /\ response.command_id = item.command_id
    /\ lw_parse_packet_data(response.data, Len(item.payload), 0) = item.payload

WholeItemFed == fed = item.size

(* C2: round trip.  For the first packet built by lw_create_packet and fed  *)
(* byte by byte into a freshly initialized response, lw_feed_response      *)
(* returns AGAIN on every byte but the last and SUCCESS on the last, and    *)
(* then response.command_id is the packet's command id and the bytes read  *)
(* by lw_parse_packet_data at offsets 0..len-1 are the payload.            *)
C2_RoundTrip ==
    (items = 1 /\ item.kind = "valid" /\ fed > 0) =>
        /\ item.size = 6 + Len(item.payload)
        /\ feedResult = IF WholeItemFed THEN LW_RESULT_SUCCESS ELSE LW_RESULT_AGAIN
        /\ WholeItemFed => HoldsItem

C2_Witness ==
    /\ items = 1
    /\ item.kind = "valid"
    /\ item.payload = LongPayload
    /\ WholeItemFed
    /\ feedResult = LW_RESULT_SUCCESS

(* The buffer data[0..data_size-1] is a well-formed packet.                *)
WellFormed(r) ==
    /\ r.data[0] = LW_PACKET_START_BYTE
    /\ r.data_size = Shr(BitOr(r.data[1], Shl(r.data[2], 8)), 6) + 5
    /\ 6 <= r.data_size
    /\ r.data_size <= LW_PACKET_RECV_SIZE
    /\ lw_create_crc(r.data, r.data_size - 2)
           = BitOr(r.data[r.data_size - 2], Shl(r.data[r.data_size - 1], 8))

(* C3: decoder soundness.  lw_feed_response returns SUCCESS only on a byte *)
(* after which the buffer is a well-formed packet (start byte, declared    *)
(* length equal to the accumulated length and within capacity, matching    *)
(* checksum); in every other case it returns AGAIN.                        *)
C3_DecoderSound ==
    feedResult # "NONE" =>
        /\ feedResult \in {LW_RESULT_SUCCESS, LW_RESULT_AGAIN}
        /\ feedResult = LW_RESULT_SUCCESS => WellFormed(response)

C3_Witness ==
    /\ item.kind = "badcrc"
    /\ item.aligned
    /\ WholeItemFed
    /\ feedResult = LW_RESULT_AGAIN
    /\ nSuccess > 0

(* C8: a packet with one flipped bit in its two checksum bytes, fed from a *)
(* packet boundary, gets AGAIN on all of its bytes and leaves the decoder  *)
(* in START right after its last byte, and the valid packet fed right      *)
(* after it is decoded: SUCCESS on its last byte, with its own command id  *)
(* and payload.                                                            *)
C8_CorruptResync ==
    /\ (item.kind = "badcrc" /\ item.aligned /\ fed > 0) =>
           /\ feedResult = LW_RESULT_AGAIN
           /\ WholeItemFed => response.parse_state = LW_PARSESTATE_START
    /\ (prevItem.kind = "badcrc" /\ prevItem.aligned /\ item.kind = "valid" /\ fed > 0) =>
           /\ feedResult = IF WholeItemFed THEN LW_RESULT_SUCCESS ELSE LW_RESULT_AGAIN
           /\ WholeItemFed => HoldsItem

C8_Witness ==
    /\ prevItem.kind = "badcrc"
    /\ prevItem.aligned
    /\ item.kind = "valid"
    /\ WholeItemFed
    /\ feedResult = LW_RESULT_SUCCESS

(* C9: while only valid packets are fed back to back into one response,    *)
(* with no lw_init_response in between, SUCCESS is returned exactly once   *)
(* per packet, on its last byte, with the command id and payload of that   *)
(* packet; the byte fed in the DONE state is taken as the first byte of    *)
(* the next packet.                                                        *)
C9_BackToBack ==
    (okRun /\ items >= 1) =>
        /\ nSuccess = IF WholeItemFed THEN items ELSE items - 1
        /\ fed > 0 => (feedResult = LW_RESULT_SUCCESS <=> WholeItemFed)
        /\ WholeItemFed => HoldsItem
        /\ (items >= 2 /\ fed = 1) =>
               /\ response.parse_state = LW_PARSESTATE_FLAGS1
               /\ response.data[0] = LW_PACKET_START_BYTE

C9_Witness ==
    /\ okRun
    /\ items >= 2
    /\ WholeItemFed
    /\ feedResult = LW_RESULT_SUCCESS
    /\ nSuccess = items

(* C11: lw_feed_response never returns LW_RESULT_ERROR, whatever the byte  *)
(* and whatever state reachable from lw_init_response the response is in:  *)
(* a response left in DONE is re-initialised before the byte is            *)
(* dispatched, so the DONE case of the dispatch is never taken.            *)
C11_NoFeedError ==
    feedResult # LW_RESULT_ERROR

(* a byte was fed to a response that the previous byte had left in DONE *)
C11_Witness ==
    /\ items >= 2
    /\ fed = 1
    /\ prevItem.kind = "valid"
    /\ prevItem.aligned
    /\ feedResult = LW_RESULT_AGAIN
    /\ response.parse_state \in {LW_PARSESTATE_START, LW_PARSESTATE_FLAGS1}

(* ---------------------------------------------------------------------- *)
(* Properties of the managed layer (checked under Spec).                   *)
(* ---------------------------------------------------------------------- *)
(* device->response holds a checksum-verified packet the wait for command  *)
(* id c accepts.                                                           *)
AcceptedFor(c) ==
    /\ response.parse_state = LW_PARSESTATE_DONE
    /\ WellFormed(response)
    /\ response.command_id = response.data[3]
    /\ c # LW_ANY_COMMAND => response.command_id = c

(* C1: whenever lw_wait_for_next_response(device, c, t) returns SUCCESS,   *)
(* device->response is in the DONE state holding a checksum-verified       *)
(* packet whose command id (buffer byte 3, response.command_id) is c       *)
(* unless c is LW_ANY_COMMAND; whenever lw_send_request_get_response       *)
(* returns SUCCESS, response.command_id = request.command_id; and a wait   *)
(* for LW_ANY_COMMAND does not go on past a byte that completes a verified *)
(* packet, whatever its command id.                                        *)
C1_WaitSuccess ==
    /\ wait_result = LW_RESULT_SUCCESS => AcceptedFor(wait.command_id)
    /\ (caller = "request" /\ result = LW_RESULT_SUCCESS) =>
           /\ wait_result = LW_RESULT_SUCCESS
           /\ response.command_id = request.command_id
    /\ (pc = "wait" /\ wait.command_id = LW_ANY_COMMAND /\ obs.lastRead = <<1>>) =>
           response.parse_state # LW_PARSESTATE_DONE

C1_Witness ==
    /\ caller = "request"
    /\ result = LW_RESULT_SUCCESS
    /\ response.command_id = request.command_id
    /\ sendObs.sends >= 2

AllBefore(results, n, allowed) ==
    \A i \in 1..n : results[i] \in allowed

(* C4: lw_send_request_get_response makes at most LW_REQUEST_RETRIES send  *)
(* calls; each send that succeeds is followed by exactly one wait for the  *)
(* request's command id with LW_RESPONSE_TIMEOUT_MS; it returns            *)
(* EXCEEDED_RETRIES after exactly LW_REQUEST_RETRIES sends whose waits all *)
(* ended without a matching packet; and it returns SUCCESS right after the *)
(* first wait that succeeds, with no further send.                         *)
C4_Retries ==
    caller = "request" =>
        LET sends == sendObs.sends
            waits == Len(sendObs.waitResults)
            unmatched == {LW_RESULT_TIMEOUT, LW_RESULT_AGAIN}
        IN  /\ sends <= LW_REQUEST_RETRIES
            /\ sends + attempts = LW_REQUEST_RETRIES \/ attempts = -1
            /\ pc = "wait" =>
                   /\ wait.command_id = request.command_id
                   /\ wait.timeout_ms = LW_RESPONSE_TIMEOUT_MS
                   /\ waits = sends - 1
                   /\ AllBefore(sendObs.waitResults, waits, unmatched)
            /\ pc = "send" =>
                   /\ waits = sends
                   /\ AllBefore(sendObs.waitResults, waits, unmatched)
            /\ (pc = "idle" /\ waits = LW_REQUEST_RETRIES
                    /\ sendObs.waitResults[waits] \in unmatched) =>
                   result = LW_RESULT_EXCEEDED_RETRIES
            /\ result = LW_RESULT_EXCEEDED_RETRIES =>
                   /\ sends = LW_REQUEST_RETRIES
                   /\ waits = LW_REQUEST_RETRIES
                   /\ AllBefore(sendObs.waitResults, waits, unmatched)
            /\ result = LW_RESULT_SUCCESS =>
                   /\ waits = sends
                   /\ sendObs.waitResults[waits] = LW_RESULT_SUCCESS
                   /\ AllBefore(sendObs.waitResults, waits - 1, unmatched)

C4_Witness ==
    /\ caller = "request"
    /\ result = LW_RESULT_EXCEEDED_RETRIES
    /\ sendObs.sends = LW_REQUEST_RETRIES

(* C6: lw_wait_for_next_response with timeout_ms = T > 0 never returns     *)
(* TIMEOUT while fewer than T milliseconds have passed on get_time_ms      *)
(* since its entry, whatever the 32-bit clock value at the entry.          *)
C6_NoEarlyTimeout ==
    wait_result = LW_RESULT_TIMEOUT => elapsed >= wait.timeout_ms

(* C7: lw_wait_for_next_response with timeout_ms = 0 whose first           *)
(* serial_receive returns 0 returns AGAIN after that one call, made for 1  *)
(* byte with timeout 0, with no call of get_time_ms or sleep, and leaves   *)
(* device->response as it was.                                             *)
C7_NonBlockingAgain ==
    [][(pc = "wait" /\ wait.timeout_ms = 0 /\ obs.rxCalls = 0 /\ obs'.lastRead = <<0>>) =>
           /\ pc' = "idle"
           /\ result' = LW_RESULT_AGAIN
           /\ wait_result' = LW_RESULT_AGAIN
           /\ obs'.rxCalls = 1
           /\ obs'.lastRx = <<1, Zero32>>
           /\ obs'.timeCalls = 0
           /\ obs'.sleepCalls = 0
           /\ response' = response]_vars

C7_Witness ==
    /\ caller = "wait"
    /\ pc = "idle"
    /\ wait.timeout_ms = 0
    /\ result = LW_RESULT_AGAIN
    /\ obs.rxCalls = 1
    /\ obs.timeCalls = 0
    /\ response.parse_state = LW_PARSESTATE_PAYLOAD

(* ---------------------------------------------------------------------- *)
(* Termination of a wait with a timeout.  The loop keeps running and the   *)
(* clock keeps advancing; the device is free to send or not.               *)
(* ---------------------------------------------------------------------- *)
FairSpec == Spec /\ WF_vars(WaitIter) /\ WF_vars(Tick)

(* C5: under a clock that keeps advancing, lw_wait_for_next_response with  *)
(* timeout_ms = T > 0 (entered where the deadline does not wrap)           *)
(* eventually returns, whatever the transport delivers, a byte on every    *)
(* serial_receive included.                                                *)
C5_WaitReturns ==
    (pc = "wait" /\ wait.timeout_ms # 0 /\ ~Lt32(wait.timeout_time, entryTime))
        ~> (pc # "wait")

(* ---------------------------------------------------------------------- *)
(* One packet polled for with non-blocking waits.  The whole packet is on  *)
(* the line; serial_receive hands over the bytes that arrived so far, so   *)
(* each call reads a chunk of any size, none included.                     *)
(* ---------------------------------------------------------------------- *)
RECURSIVE FeedRange(_, _, _, _)
(* the loop of lw_wait_for_next_response over bytes[lo..hi], every         *)
(* serial_receive returning the next byte, up to the byte that completes   *)
(* the awaited packet; o is the response and what the latest               *)
(* lw_feed_response returned                                               *)
FeedRange(o, bytes, lo, hi) ==
    IF o.result = LW_RESULT_SUCCESS \/ lo > hi THEN o
    ELSE IF lo = hi THEN lw_feed_response(o.resp, bytes[lo])
    ELSE LET mid == (lo + hi) \div 2
             left == FeedRange(o, bytes, lo, mid)
         IN  IF left.resp.data_size >= 0
             THEN FeedRange(left, bytes, mid + 1, hi)
             ELSE left

(* the response after one call of lw_wait_for_next_response that finds     *)
(* every byte of the awaited packet on the line                            *)
FeedAll(r, bytes) ==
    FeedRange([resp |-> r, result |-> LW_RESULT_AGAIN], bytes, 1, Len(bytes)).resp

(* the packet the device may have decoded before the polled one            *)
EarlierPacket == <<170, 1, <<170, 7>>>>

(* the response the device holds when the packet arrives: newly created    *)
(* (before is NoItem), or DONE with the earlier packet                     *)
ChunkStart(before) ==
    IF before.kind = "valid"
    THEN FeedAll(lw_create_callback_device.response,
                 PacketBytes[<<before.command_id, before.write, before.payload>>])
    ELSE lw_create_callback_device.response

ChunkBefore ==
    {NoItem, [kind |-> "valid", command_id |-> EarlierPacket[1], write |-> EarlierPacket[2],
              payload |-> EarlierPacket[3], size |-> Len(PacketBytes[EarlierPacket]),
              aligned |-> TRUE, reply_to |-> 0]}

InitChunk ==
    /\ prevItem \in ChunkBefore
    /\ response = ChunkStart(prevItem)
    /\ request = lw_create_callback_device.request
    /\ pc = "idle"
    /\ caller = "none"
    /\ wait = NoWait
    /\ attempts = 0
    /\ result = "NONE"
    /\ wait_result = "NONE"
    /\ entryTime = Zero32
    /\ elapsed = 0
    /\ \E t \in PacketInputs :
           /\ wire = PacketBytes[t]
           /\ item = ItemOf("valid", t[1], t[2], t[3], PacketBytes[t])
    /\ fed = 0
    /\ feedResult = "NONE"
    /\ items = 0
    /\ okRun = TRUE
    /\ nSuccess = 0
    /\ lastDone = <<>>
    /\ fresh = NoTwin
    /\ freshResult = "NONE"
    /\ obs = NoObs
    /\ sendObs = NoSendObs
    /\ calls = 0
    /\ crc_data = <<>>
    /\ crc_value = <<>>
    /\ set_arg = NoSetArg
    /\ hardware_version = NoGet
    /\ token_call = NoTokenCall
    /\ alarm_a_distance = NoAlarm

(* lw_wait_for_next_response(device, the packet's command id, 0)           *)
CallPoll ==
    /\ pc = "idle"
    /\ EnterWait(item.command_id, 0, Zero32)
    /\ caller' = "wait"
    /\ result' = "NONE"
    /\ calls' = Saturate(calls + 1)
    /\ UNCHANGED <<devVars, attempts, lineVars, feedObs, sendObs, apiVars, twinVars>>

NextChunk == CallPoll \/ WaitIter

SpecChunk == InitChunk /\ [][NextChunk]_vars

(* the response after one call that finds every byte of the packet         *)
SingleCall ==
    [t \in PacketInputs |->
        [before \in ChunkBefore |-> FeedAll(ChunkStart(before), PacketBytes[t])]]

(* C10: chunk independence.  When the bytes of one valid packet with the   *)
(* awaited command id are read over successive non-blocking waits, a byte  *)
(* before the last never ends a call, a call that runs out of bytes        *)
(* returns AGAIN, and the call that reads the last byte returns SUCCESS    *)
(* with the response a single call reading all the bytes produces.         *)
C10_ChunkIndependent ==
    [][pc = "wait" =>
          /\ (fed' > fed /\ fed' < item.size) => pc' = "wait"
          /\ (fed' > fed /\ fed' = item.size) =>
                 /\ pc' = "idle"
                 /\ result' = LW_RESULT_SUCCESS
                 /\ response' = SingleCall[<<item.command_id, item.write, item.payload>>]
                                          [prevItem]
          /\ (fed' = fed /\ obs'.lastRead = <<0>>) =>
                 /\ pc' = "idle"
                 /\ result' = LW_RESULT_AGAIN]_vars

C10_Witness ==
    /\ pc = "idle"
    /\ result = LW_RESULT_SUCCESS
    /\ fed = item.size
    /\ item.payload = LongPayload
    /\ prevItem.kind = "valid"
    /\ calls >= 2

(* ---------------------------------------------------------------------- *)
(* Failures of the transport callbacks (checked under Spec).               *)
(* ---------------------------------------------------------------------- *)
(* C12: when a send made by lw_send_request_get_response returns 0, the    *)
(* call returns LW_RESULT_ERROR at once: no wait is entered and no receive *)
(* is made for that attempt, and no further send is made by that call.     *)
C12_SendFailure ==
    [][/\ sendObs'.failedSends > sendObs.failedSends =>
              /\ pc' = "idle"
              /\ result' = LW_RESULT_ERROR
              /\ sendObs'.sends = sendObs.sends + 1
              /\ sendObs'.waitResults = sendObs.waitResults
              /\ UNCHANGED <<obs, entryTime, elapsed, wait, wire, response>>
       /\ (sendObs.failedSends > 0 /\ calls' = calls) =>
              UNCHANGED <<sendObs, obs, pc, result>>]_vars

(* a send failed while attempts were left *)
C12_Witness ==
    /\ caller = "request"
    /\ pc = "idle"
    /\ result = LW_RESULT_ERROR
    /\ sendObs.failedSends = 1
    /\ sendObs.sends = 2
    /\ attempts > 0

(* C13: when a receive made by lw_wait_for_next_response returns -1, the   *)
(* wait returns LW_RESULT_ERROR at once, with a timeout and without one,   *)
(* and makes no further receive; when lw_send_request_get_response is the  *)
(* caller it returns LW_RESULT_ERROR too, without sending again.           *)
C13_ReceiveFailure ==
    [][/\ (pc = "wait" /\ obs' # obs /\ obs'.lastRead = <<-1>>) =>
              /\ wait_result' = LW_RESULT_ERROR
              /\ pc' = "idle"
              /\ result' = LW_RESULT_ERROR
              /\ sendObs'.sends = sendObs.sends
              /\ UNCHANGED <<wire, response, attempts>>
       /\ (wait_result = LW_RESULT_ERROR /\ calls' = calls) =>
              UNCHANGED <<obs, sendObs, pc, result, wait_result>>]_vars

(* a receive failed under lw_send_request_get_response with attempts left *)
C13_Witness ==
    /\ caller = "request"
    /\ pc = "idle"
    /\ result = LW_RESULT_ERROR
    /\ obs.lastRead = <<-1>>
    /\ obs.rxCalls >= 2
    /\ sendObs.failedSends = 0
    /\ attempts > 0

(* results a wait with the given timeout may return *)
WaitResultsFor(timeout_ms) ==
    IF timeout_ms # 0
    THEN {LW_RESULT_SUCCESS, LW_RESULT_ERROR, LW_RESULT_TIMEOUT}
    ELSE {LW_RESULT_SUCCESS, LW_RESULT_ERROR, LW_RESULT_AGAIN}

(* C14: lw_wait_for_next_response with a timeout above 0 returns only      *)
(* SUCCESS, ERROR or TIMEOUT, with timeout 0 only SUCCESS, ERROR or AGAIN; *)
(* lw_send_request_get_response returns only SUCCESS, ERROR or             *)
(* EXCEEDED_RETRIES.                                                       *)
C14_OutcomeSets ==
    /\ wait_result # "NONE" => wait_result \in WaitResultsFor(wait.timeout_ms)
    /\ (caller = "wait" /\ pc = "idle") =>
           /\ result = wait_result
           /\ result \in WaitResultsFor(wait.timeout_ms)
    /\ (caller = "request" /\ pc = "idle") =>
           result \in {LW_RESULT_SUCCESS, LW_RESULT_ERROR, LW_RESULT_EXCEEDED_RETRIES}

(* a request returned after waits that ran out of time *)
C14_Witness ==
    /\ caller = "request"
    /\ pc = "idle"
    /\ result = LW_RESULT_EXCEEDED_RETRIES
    /\ wait_result = LW_RESULT_TIMEOUT
    /\ wait.timeout_ms = LW_RESPONSE_TIMEOUT_MS

(* C15: corrupted input never comes out as an error.  A wait returns ERROR *)
(* only when its last receive returned -1, and a request returns ERROR     *)
(* only when a send returned 0 or a receive returned -1; a call that ends  *)
(* on a byte it received ends with SUCCESS on the last byte of a valid     *)
(* packet, so packets with a wrong checksum, headers with a length out of  *)
(* range, noise bytes and packets with another command id only prolong     *)
(* the wait.                                                               *)
C15_CorruptionNoError ==
    /\ wait_result = LW_RESULT_ERROR => obs.lastRead = <<-1>>
    /\ (caller = "wait" /\ pc = "idle" /\ result = LW_RESULT_ERROR) =>
           wait_result = LW_RESULT_ERROR
    /\ (caller = "request" /\ pc = "idle" /\ result = LW_RESULT_ERROR) =>
           \/ sendObs.failedSends > 0
           \/ wait_result = LW_RESULT_ERROR
    /\ (pc = "idle" /\ wait_result # "NONE" /\ obs.lastRead = <<1>> /\ fed > 0) =>
           /\ result = LW_RESULT_SUCCESS
           /\ item.kind = "valid"
           /\ fed = item.size
           /\ wait.command_id \in {item.command_id, LW_ANY_COMMAND}

(* a wait goes on after the last byte of a packet with a wrong checksum *)
C15_Witness ==
    /\ pc = "wait"
    /\ item.kind = "badcrc"
    /\ fed = item.size
    /\ obs.lastRead = <<1>>
    /\ obs.rxCalls >= 2

(* ---------------------------------------------------------------------- *)
(* lw_create_crc called directly on a byte sequence (SpecCrc).             *)
(* ---------------------------------------------------------------------- *)
MaxCrcLen == 4

(* byte values of the inputs: the bytes of a request header and all-ones   *)
CrcBytes == {0, 5, 64, 170, 255}

RECURSIVE SeqsUpTo(_, _)
SeqsUpTo(S, n) ==
    IF n = 0 THEN {<<>>}
    ELSE LET shorter == SeqsUpTo(S, n - 1)
         IN  shorter \cup {Append(q, b) : q \in {x \in shorter : Len(x) = n - 1}, b \in S}

CrcInputs == SeqsUpTo(CrcBytes, MaxCrcLen)

InitCrc ==
    /\ response = lw_create_callback_device.response
    /\ request = lw_create_callback_device.request
    /\ pc = "idle"
    /\ caller = "none"
    /\ wait = NoWait
    /\ attempts = 0
    /\ result = "NONE"
    /\ wait_result = "NONE"
    /\ entryTime = Zero32
    /\ elapsed = 0
    /\ wire = <<>>
    /\ item = NoItem
    /\ fed = 0
    /\ prevItem = NoItem
    /\ feedResult = "NONE"
    /\ items = 0
    /\ okRun = TRUE
    /\ nSuccess = 0
    /\ lastDone = <<>>
    /\ fresh = NoTwin
    /\ freshResult = "NONE"
    /\ obs = NoObs
    /\ sendObs = NoSendObs
    /\ calls = 0
    /\ crc_data \in CrcInputs
    /\ crc_value = <<>>
    /\ set_arg = NoSetArg
    /\ hardware_version = NoGet
    /\ token_call = NoTokenCall
    /\ alarm_a_distance = NoAlarm

(* crc = lw_create_crc(data, size)                                         *)
CallCreateCrc ==
    /\ crc_value = <<>>
    /\ crc_value' = <<lw_create_crc(AsBuffer(crc_data), Len(crc_data))>>
    /\ UNCHANGED <<devVars, callVars, clockVars, lineVars, feedObs, callObs, crc_data, set_arg, hardware_version, twinVars, token_call, alarm_a_distance>>

NextCrc == CallCreateCrc

SpecCrc == InitCrc /\ [][NextCrc]_vars

(* the five steps applied to one byte, each shift taken of the code of     *)
(* step 2: code << 5 and code << 7                                         *)
StepAsStated(crc, b) ==
    LET code1 == BitXor(Shr(crc, 8), b)
        code2 == BitXor(code1, Shr(code1, 4))
        crc3  == BitXor(Shl(crc, 8) % U16, code2)
        crc4  == BitXor(crc3, Shl(code2, 5) % U16)
    IN  BitXor(crc4, Shl(code2, 7) % U16)

(* the same with the last shift taken of the code already shifted by 5,    *)
(* that is code << 12 of the code of step 2                                *)
StepAmended(crc, b) ==
    LET code1 == BitXor(Shr(crc, 8), b)
        code2 == BitXor(code1, Shr(code1, 4))
        crc3  == BitXor(Shl(crc, 8) % U16, code2)
        crc4  == BitXor(crc3, Shl(code2, 5) % U16)
    IN  BitXor(crc4, Shl(code2, 12) % U16)

RECURSIVE ChecksumAsStated(_)
ChecksumAsStated(bytes) ==
    IF bytes = <<>> THEN 0
    ELSE StepAsStated(ChecksumAsStated(SubSeq(bytes, 1, Len(bytes) - 1)),
                      bytes[Len(bytes)])

RECURSIVE ChecksumAmended(_)
ChecksumAmended(bytes) ==
    IF bytes = <<>> THEN 0
    ELSE StepAmended(ChecksumAmended(SubSeq(bytes, 1, Len(bytes) - 1)),
                     bytes[Len(bytes)])

(* C16 as stated: for every byte sequence lw_create_crc returns the value  *)
(* obtained from crc = 0 by applying to each byte b in order, in 16-bit    *)
(* truncating arithmetic, code = (crc >> 8) XOR b; code = code XOR         *)
(* (code >> 4); crc = (crc << 8) XOR code; crc = crc XOR (code << 5);      *)
(* crc = crc XOR (code << 7).                                              *)
C16_CrcAsStated ==
    crc_value # <<>> => crc_value = <<ChecksumAsStated(crc_data)>>

(* C16 as amended: the same with the last step crc = crc XOR (code << 12): *)
(* the shift by 7 is applied to the code already shifted by 5.             *)
C16_CrcAmended ==
    crc_value # <<>> => crc_value = <<ChecksumAmended(crc_data)>>

(* the checksum of a sequence of MaxCrcLen bytes on which the two readings *)
(* differ                                                                  *)
C16_Witness ==
    /\ crc_value # <<>>
    /\ Len(crc_data) = MaxCrcLen
    /\ crc_value = <<ChecksumAmended(crc_data)>>
    /\ crc_value # <<ChecksumAsStated(crc_data)>>

(* ---------------------------------------------------------------------- *)
(* A read request built and handed back to the decoder (SpecEcho).         *)
(* ---------------------------------------------------------------------- *)
(* the bytes of the request: the first data_size bytes of request.data     *)
RequestBytes(req) == [i \in 1..req.data_size |-> req.data[i - 1]]

(* lw_create_request_read(&device->request, c)                             *)
BuildReadRequest ==
    /\ calls = 0
    /\ calls' = 1
    /\ \E c \in CmdIds : request' = lw_create_request_read(request, c)
    /\ UNCHANGED <<response, callVars, clockVars, lineVars, feedObs, obs, sendObs, apiVars, twinVars>>

(* the bytes of the built request arrive at the decoder                    *)
EchoRequest ==
    /\ calls > 0
    /\ PutOnLine("echo", request.command_id, 0, <<>>, RequestBytes(request))

NextEcho == BuildReadRequest \/ EchoRequest \/ FeedByte \/ SendNoise \/ SendValidPacket

SpecEcho == Init /\ [][NextEcho]_vars

(* first four bytes of a read request for command id 5 *)
ReadHeader5 == <<170, 64, 0, 5>>

(* the read request for command id 5 holds the header and the checksum     *)
(* crc, low byte first, and a fresh response fed its bytes returns AGAIN   *)
(* on the first five and SUCCESS on the sixth                              *)
ReadRequest5(crc) ==
    /\ (calls > 0 /\ request.command_id = 5) =>
           /\ request.data_size = 6
           /\ RequestBytes(request) = ReadHeader5 \o <<crc % 256, crc \div 256>>
    /\ (item.kind = "echo" /\ item.command_id = 5 /\ items = 1 /\ fed > 0) =>
           /\ fed < 6 => feedResult = LW_RESULT_AGAIN
           /\ fed = 6 =>
                  /\ feedResult = LW_RESULT_SUCCESS
                  /\ response.command_id = 5
                  /\ response.payload_size = 1

(* C17 as stated: a read request for command id 5 is the six bytes 0xAA,   *)
(* 0x40, 0x00, 0x05, crcLo, crcHi with the checksum of the first four      *)
(* bytes computed by the checksum steps as stated (last step code << 7),   *)
(* and a fresh decoder fed the six bytes reports SUCCESS on the sixth,     *)
(* with command id 5 and declared payload length 1.                        *)
C17_AsStated ==
    ReadRequest5(ChecksumAsStated(ReadHeader5))

(* C17 as amended: the same with the checksum lw_create_crc computes (last *)
(* step code << 12 in all), which makes the bytes 0xAA, 0x40, 0x00, 0x05,  *)
(* 0xD5, 0xCF.                                                             *)
C17_Amended ==
    /\ ReadRequest5(ChecksumAmended(ReadHeader5))
    /\ ChecksumAmended(ReadHeader5) = 207 * 256 + 213

(* the sixth byte of the request was fed to a fresh response *)
C17_Witness ==
    /\ item.kind = "echo"
    /\ item.command_id = 5
    /\ items = 1
    /\ fed = 6
    /\ feedResult = LW_RESULT_SUCCESS
    /\ RequestBytes(request) = <<170, 64, 0, 5, 213, 207>>

(* ---------------------------------------------------------------------- *)
(* Managed set operations with a validated parameter (SpecSet).            *)
(* ---------------------------------------------------------------------- *)
LW_GRF250_COMMAND_UPDATE_RATE == 74
LW_GRF250_COMMAND_LOST_SIGNAL_COUNTER == 78

(* lw_grf250_set_update_rate and lw_grf250_set_lost_signal_counter: the    *)
(* command written and the range lw_grf250_create_request_write_... lets   *)
(* through                                                                 *)
SetOps ==
    {[op |-> "update_rate", command_id |-> LW_GRF250_COMMAND_UPDATE_RATE,
      lo |-> 1, hi |-> 50],
     [op |-> "lost_signal_counter", command_id |-> LW_GRF250_COMMAND_LOST_SIGNAL_COUNTER,
      lo |-> 1, hi |-> 250]}

(* arguments tried: the values next to the ends of the range outside it,   *)
(* and the upper end                                                       *)
SetValues(o) == {o.lo - 1, o.hi, o.hi + 1}

(* variant: only the upper end of the range is tested *)
ParamRefused_upper(value, lo, hi) == value > hi

(* if (rate < 1 || rate > 50)                                              *)
ParamRefused(value, lo, hi) == value < lo \/ value > hi

(* lw_grf250_set_...(device, value): LW_CHECK_SUCCESS of the request       *)
(* builder, then lw_send_request_get_response starts                       *)
CallSet ==
    /\ pc = "idle"
    /\ calls < MaxCalls
    /\ calls' = calls + 1
    /\ \E o \in SetOps :
         \E value \in SetValues(o) :
             /\ set_arg' = [op |-> o.op, value |-> value]
             /\ IF ParamRefused(value, o.lo, o.hi)
                THEN /\ result' = LW_RESULT_INVALID_PARAMETER
                     /\ caller' = "set"
                     /\ pc' = "idle"
                     /\ UNCHANGED <<request, attempts>>
                ELSE /\ request' = lw_create_request_write_uint32(request, o.command_id, value)
                     /\ attempts' = LW_REQUEST_RETRIES
                     /\ caller' = "request"
                     /\ pc' = "send"
                     /\ result' = "NONE"
    /\ wait_result' = "NONE"
    /\ sendObs' = NoSendObs
    /\ UNCHANGED <<response, wait, clockVars, lineVars, feedObs, obs, crc_data, crc_value, hardware_version, twinVars, token_call, alarm_a_distance>>

NextSet == CallSet \/ SendAttempt \/ WaitIter \/ Tick \/ DeviceSends

SpecSet == Init /\ [][NextSet]_vars

(* C18: a managed set operation called with a parameter outside its range  *)
(* (lw_grf250_set_update_rate with a rate outside 1..50,                   *)
(* lw_grf250_set_lost_signal_counter with a counter outside 1..250)        *)
(* returns INVALID_PARAMETER before any transport callback is made and     *)
(* leaves device->request and device->response as they were.               *)
C18_InvalidParameter ==
    [][/\ (/\ calls' = calls + 1
           /\ \/ set_arg'.op = "update_rate" /\ set_arg'.value \notin 1..50
              \/ set_arg'.op = "lost_signal_counter" /\ set_arg'.value \notin 1..250) =>
              /\ pc' = "idle"
              /\ result' = LW_RESULT_INVALID_PARAMETER
              /\ sendObs'.sends = 0
              /\ UNCHANGED <<request, response, obs, wire>>
       /\ (result = LW_RESULT_INVALID_PARAMETER /\ calls' = calls) =>
              UNCHANGED <<request, response, obs, sendObs, pc, result>>]_vars

(* a rate of 51 was refused after a request for another command was built *)
C18_Witness ==
    /\ pc = "idle"
    /\ result = LW_RESULT_INVALID_PARAMETER
    /\ set_arg = [op |-> "update_rate", value |-> 51]
    /\ request.command_id = LW_GRF250_COMMAND_LOST_SIGNAL_COUNTER
    /\ request.data_size = 10
    /\ obs.rxCalls > 0

(* ---------------------------------------------------------------------- *)
(* Termination of the non-blocking wait (checked under FairSpec).          *)
(* ---------------------------------------------------------------------- *)
(* C19: a non-blocking call, lw_wait_for_next_response with timeout_ms = 0 *)
(* (as lw_grf250_wait_for_streamed_distance makes it), always returns,     *)
(* also while the device keeps streaming bytes that never complete a       *)
(* packet with the awaited command id.                                     *)
C19_NonBlockingReturns ==
    (pc = "wait" /\ wait.timeout_ms = 0) ~> (pc # "wait")

(* ---------------------------------------------------------------------- *)
(* Requests answered by the device (SpecReply).                            *)
(* ---------------------------------------------------------------------- *)
(* the device answers a request it received: a packet with the request's   *)
(* command id, put on the line once the line was drained, while the call   *)
(* that sent the request is still waiting or after it gave up              *)
DeviceReplies ==
    /\ wire = <<>>
    /\ caller = "request"
    /\ sendObs.sends > sendObs.failedSends
    /\ LET t == <<request.command_id, 0, <<>>>>
       IN  /\ wire' = PacketBytes[t]
           /\ item' = [ItemOf("valid", t[1], t[2], t[3], PacketBytes[t])
                          EXCEPT !.reply_to = calls]
    /\ fed' = 0
    /\ UNCHANGED <<devVars, callVars, clockVars, prevItem, feedObs, callObs, apiVars, twinVars>>

NextReply ==
    \/ CallRequest \/ SendAttempt \/ WaitIter \/ Tick
    \/ DeviceSends \/ DeviceReplies

SpecReply == Init /\ [][NextReply]_vars

(* C20: lw_send_request_get_response returns SUCCESS only on a packet the  *)
(* device produced in reply to the request of this call; a verified packet *)
(* with the same command id that was pending before the request was sent   *)
(* (a late reply to an earlier call, a streamed packet) is never accepted  *)
(* as its answer.                                                          *)
C20_NoMisattribution ==
    (caller = "request" /\ pc = "idle" /\ result = LW_RESULT_SUCCESS /\ fed > 0) =>
        /\ fed = item.size
        /\ item.reply_to = calls

(* ---------------------------------------------------------------------- *)
(* The deadline of the blocking wait (checked under Spec).                 *)
(* ---------------------------------------------------------------------- *)
(* C21: in a wait with a timeout, whose deadline did not wrap, a loop      *)
(* iteration that starts with no time left returns TIMEOUT without calling *)
(* serial_receive: no receive is made with no time left, and SUCCESS is    *)
(* never returned on a byte read after the deadline.                       *)
C21_NoReceiveAfterDeadline ==
    (/\ pc = "wait" \/ wait_result # "NONE"
     /\ wait.timeout_ms # 0
     /\ ~Lt32(wait.timeout_time, entryTime)
     /\ obs.rxCalls > 0) =>
        /\ obs.lastRx[2] # Zero32
        /\ wait_result = LW_RESULT_SUCCESS => elapsed < wait.timeout_ms

(* ---------------------------------------------------------------------- *)
(* The non-blocking wait over the bytes available (checked under Spec).    *)
(* ---------------------------------------------------------------------- *)
(* the step read a byte and the byte completed a verified packet the wait  *)
(* accepts                                                                 *)
ReadAccepted ==
    /\ fed' = fed + 1
    /\ response'.parse_state = LW_PARSESTATE_DONE
    /\ wait.command_id \in {LW_ANY_COMMAND, response'.command_id}

(* C22: drain-then-yield.  In a wait with timeout 0 a byte that completes  *)
(* a verified packet with another command id does not end the call, no     *)
(* more than any other byte that completes no accepted packet; the call    *)
(* returns SUCCESS at the first byte that completes an accepted packet, or *)
(* AGAIN at the first receive that yields no byte, and SUCCESS is returned *)
(* for no other packet.                                                    *)
C22_DrainThenYield ==
    [][(pc = "wait" /\ wait.timeout_ms = 0) =>
          /\ ReadAccepted => (pc' = "idle" /\ result' = LW_RESULT_SUCCESS)
          /\ (fed' = fed + 1 /\ ~ReadAccepted) => (pc' = "wait" /\ result' = result)
          /\ pc' = "idle" =>
                \/ result' = LW_RESULT_SUCCESS /\ ReadAccepted
                \/ /\ result' = LW_RESULT_AGAIN
                   /\ obs'.lastRead = <<0>>
                   /\ UNCHANGED <<fed, wire, response>>
                \/ result' = LW_RESULT_ERROR /\ obs'.lastRead = <<-1>>]_vars

(* a wait with timeout 0 read a whole verified packet with another command *)
(* id and returned AGAIN at the receive after it                           *)
C22_Witness ==
    /\ caller = "wait"
    /\ pc = "idle"
    /\ wait.timeout_ms = 0
    /\ wait.command_id = 5
    /\ result = LW_RESULT_AGAIN
    /\ response.parse_state = LW_PARSESTATE_DONE
    /\ response.command_id = 170
    /\ obs.rxCalls >= 2

(* ---------------------------------------------------------------------- *)
(* response.command_id between packets (checked under SpecFeed).           *)
(* ---------------------------------------------------------------------- *)
(* C23 as stated: once a packet was completed, response.command_id is the  *)
(* command id of the packet completed last, also while the bytes of what   *)
(* follows are fed; it is the sentinel 255 only before the first           *)
(* completion.                                                             *)
C23_CommandIdKept ==
    IF lastDone = <<>>
    THEN response.command_id = UINT8_MAX
    ELSE response.command_id = lastDone[1]

(* C23 as amended: response.command_id is the command id of the packet     *)
(* completed last from the byte that completes it until the next byte is   *)
(* fed; that byte sets it back to the sentinel 255, which it keeps until   *)
(* the next completion, as it does before the first.                       *)
C23_CommandIdUntilNextByte ==
    IF feedResult = LW_RESULT_SUCCESS
    THEN /\ lastDone # <<>>
         /\ response.command_id = lastDone[1]
         /\ response.parse_state = LW_PARSESTATE_DONE
    ELSE /\ response.command_id = UINT8_MAX
         /\ response.parse_state # LW_PARSESTATE_DONE

(* the byte after a completed packet was fed *)
C23_Witness ==
    /\ lastDone = <<5>>
    /\ feedResult = LW_RESULT_AGAIN
    /\ fed = 1
    /\ items = 2
    /\ response.command_id = UINT8_MAX

(* ---------------------------------------------------------------------- *)
(* A managed get operation: lw_grf250_get_hardware_version (SpecGet).      *)
(* ---------------------------------------------------------------------- *)
LW_GRF250_COMMAND_HARDWARE_VERSION == 1

(* LW_CHECK_SUCCESS(lw_grf250_create_request_read_hardware_version(...))   *)
(* and the entry of lw_send_request_get_response                           *)
CallGetHardwareVersion ==
    /\ pc = "idle"
    /\ hardware_version.state # "pending"
    /\ calls < MaxCalls
    /\ calls' = calls + 1
    /\ request' = lw_create_request_read(request, LW_GRF250_COMMAND_HARDWARE_VERSION)
    /\ attempts' = LW_REQUEST_RETRIES
    /\ caller' = "request"
    /\ pc' = "send"
    /\ result' = "NONE"
    /\ wait_result' = "NONE"
    /\ sendObs' = NoSendObs
    /\ hardware_version' = [state |-> "pending", bytes |-> <<>>]
    /\ UNCHANGED <<response, wait, clockVars, lineVars, feedObs, obs, crc_data, crc_value, set_arg, twinVars, token_call, alarm_a_distance>>

(* LW_CHECK_COMMAND_ID, then lw_parse_response_uint32(response, ..., 0)    *)
lw_grf250_parse_response_hardware_version(resp) ==
    IF resp.command_id # LW_GRF250_COMMAND_HARDWARE_VERSION
    THEN [result |-> LW_RESULT_INCORRECT_COMMAND_ID, bytes |-> <<>>]
    ELSE [result |-> LW_RESULT_SUCCESS, bytes |-> lw_parse_packet_data(resp.data, 4, 0)]

(* the rest of lw_grf250_get_hardware_version once                         *)
(* lw_send_request_get_response has returned                               *)
ReturnGetHardwareVersion ==
    /\ pc = "idle"
    /\ hardware_version.state = "pending"
    /\ IF result = LW_RESULT_SUCCESS
       THEN LET out == lw_grf250_parse_response_hardware_version(response)
            IN  /\ result' = out.result
                /\ hardware_version' = [state |-> "done", bytes |-> out.bytes]
       ELSE /\ hardware_version' = [state |-> "done", bytes |-> <<>>]
            /\ UNCHANGED result
    /\ UNCHANGED <<devVars, pc, caller, wait, attempts, wait_result, clockVars, lineVars,
                   feedObs, callObs, crc_data, crc_value, set_arg, twinVars, token_call, alarm_a_distance>>

(* data the device may answer with: a version of four bytes, and answers   *)
(* that are shorter                                                        *)
VersionPayloads == {<<17, 34, 51, 68>>, <<17>>, <<>>}

VersionAnswers ==
    [p \in VersionPayloads |-> lw_create_packet(LW_GRF250_COMMAND_HARDWARE_VERSION, 0, p)]

(* the device answers the request it received                              *)
DeviceAnswers ==
    /\ wire = <<>>
    /\ pc = "wait"
    /\ \E p \in VersionPayloads :
           /\ wire' = VersionAnswers[p]
           /\ item' = [ItemOf("valid", LW_GRF250_COMMAND_HARDWARE_VERSION, 0, p,
                              VersionAnswers[p])
                          EXCEPT !.reply_to = calls]
    /\ fed' = 0
    /\ UNCHANGED <<devVars, callVars, clockVars, prevItem, feedObs, callObs, apiVars, twinVars>>

NextGet ==
    \/ CallGetHardwareVersion \/ SendAttempt \/ WaitIter \/ Tick
    \/ DeviceAnswers \/ ReturnGetHardwareVersion

SpecGet == Init /\ [][NextGet]_vars

(* C24: when lw_grf250_get_hardware_version returns SUCCESS, the four      *)
(* bytes it copied lie inside the payload of the response just verified,   *)
(* at buffer positions 4 .. payload_size + 2: none of them is a checksum   *)
(* byte or a byte left by an earlier, longer packet, also when the         *)
(* verified response is shorter than the value.                            *)
C24_DecodedInsidePayload ==
    (hardware_version.state = "done" /\ result = LW_RESULT_SUCCESS) =>
        /\ Len(hardware_version.bytes) = 4
        /\ 4 + Len(hardware_version.bytes) - 1 <= response.payload_size + 2
        /\ hardware_version.bytes = item.payload

(* ---------------------------------------------------------------------- *)
(* The decoder fed arbitrary bytes from an initialized response (SpecRaw). *)
(* ---------------------------------------------------------------------- *)
MaxRaw == 4

(* byte values fed: the start byte, flags bytes on both sides of the ends  *)
(* of the accepted range of the length field, with and without low bits    *)
RawBytes == {0, 14, 15, 63, 64, 170, 192, 193}

RawInputs == SeqsUpTo(RawBytes, MaxRaw)

InitRaw ==
    /\ response = lw_create_callback_device.response
    /\ request = lw_create_callback_device.request
    /\ pc = "idle"
    /\ caller = "none"
    /\ wait = NoWait
    /\ attempts = 0
    /\ result = "NONE"
    /\ wait_result = "NONE"
    /\ entryTime = Zero32
    /\ elapsed = 0
    /\ \E bytes \in RawInputs :
           /\ wire = bytes
           /\ item = ItemOf("raw", 0, 0, <<>>, bytes)
    /\ fed = 0
    /\ prevItem = NoItem
    /\ feedResult = "NONE"
    /\ items = 1
    /\ okRun = FALSE
    /\ nSuccess = 0
    /\ lastDone = <<>>
    /\ fresh = NoTwin
    /\ freshResult = "NONE"
    /\ obs = NoObs
    /\ sendObs = NoSendObs
    /\ calls = 0
    /\ crc_data = <<>>
    /\ crc_value = <<>>
    /\ set_arg = NoSetArg
    /\ hardware_version = NoGet
    /\ token_call = NoTokenCall
    /\ alarm_a_distance = NoAlarm

NextRaw == FeedByte

SpecRaw == InitRaw /\ [][NextRaw]_vars

(* the length field of the flags bytes low and high *)
LengthField(low, high) == (low + 256 * high) \div 64

(* C25: on the third header byte, with L the length field of the two flags *)
(* bytes, lw_feed_response goes to PAYLOAD with 3 bytes accumulated if and *)
(* only if 1 <= L <= LW_PACKET_RECV_SIZE - 5 and back to START otherwise;  *)
(* it returns AGAIN in both cases, and the decision depends on the low six *)
(* flag bits in no way.                                                    *)
C25_LengthDecision ==
    [][(response.parse_state = LW_PARSESTATE_FLAGS2 /\ fed' = fed + 1) =>
          LET L == LengthField(response.data[1], Head(wire))
          IN  /\ feedResult' = LW_RESULT_AGAIN
              /\ IF 1 <= L /\ L <= LW_PACKET_RECV_SIZE - 5
                 THEN /\ response'.parse_state = LW_PARSESTATE_PAYLOAD
                      /\ response'.data_size = 3
                      /\ response'.payload_size = L
                 ELSE response'.parse_state = LW_PARSESTATE_START]_vars

(* a header with the largest accepted length field and the write bit set *)
C25_Witness ==
    /\ response.parse_state = LW_PARSESTATE_PAYLOAD
    /\ response.data_size = 3
    /\ response.payload_size = LW_PACKET_RECV_SIZE - 5
    /\ response.data[1] = 193
    /\ response.data[2] = 14
    /\ fed = 3

(* ---------------------------------------------------------------------- *)
(* Bounds of the accumulator (checked under SpecFeed).                     *)
(* ---------------------------------------------------------------------- *)
(* C26: whatever bytes are fed from an initialized response, data_size     *)
(* never exceeds LW_PACKET_RECV_SIZE; in PAYLOAD the payload size is in    *)
(* 1 .. LW_PACKET_RECV_SIZE - 5 and 3 <= data_size < payload_size + 5, so  *)
(* the index data_size of the next buffer write is below                   *)
(* LW_PACKET_RECV_SIZE.                                                    *)
C26_BufferBounds ==
    /\ response.data_size <= LW_PACKET_RECV_SIZE
    /\ response.parse_state = LW_PARSESTATE_PAYLOAD =>
           /\ 1 <= response.payload_size
           /\ response.payload_size <= LW_PACKET_RECV_SIZE - 5
           /\ 3 <= response.data_size
           /\ response.data_size < response.payload_size + 5
           /\ response.data_size < LW_PACKET_RECV_SIZE

(* the last byte of a packet that fills the buffer is about to be written *)
C26_Witness ==
    /\ response.parse_state = LW_PARSESTATE_PAYLOAD
    /\ response.payload_size = LW_PACKET_RECV_SIZE - 5
    /\ response.data_size = LW_PACKET_RECV_SIZE - 1

(* ---------------------------------------------------------------------- *)
(* The decoder next to a freshly initialized one: when lw_feed_response    *)
(* puts the response back to START out of FLAGS2 (length field refused)    *)
(* or out of PAYLOAD (checksum mismatch), a second response is initialized *)
(* by lw_init_response, and every byte read from then on is fed to both.   *)
(* At a later return to START the second response is either initialized    *)
(* again or fed on.                                                        *)
(* ---------------------------------------------------------------------- *)
(* start byte and flags bytes whose length field is 0, 60 and 682          *)
BadLengthHeaders == {<<170, 0, 0>>, <<170, 0, 15>>, <<170, 170, 170>>}

SendBadLength ==
    \E h \in BadLengthHeaders : PutOnLine("badlen", 0, 0, <<>>, h)

Reverts(r, data) ==
    /\ r.parse_state \in {LW_PARSESTATE_FLAGS2, LW_PARSESTATE_PAYLOAD}
    /\ lw_feed_response(r, data).resp.parse_state = LW_PARSESTATE_START

FeedByteTwin ==
    /\ FeedStep
    /\ LET data == Head(wire)
           out == lw_feed_response(fresh.resp, data)
       IN  \/ /\ Reverts(response, data)
              /\ fresh' = [on |-> TRUE, resp |-> lw_init_response(ZeroResponse)]
              /\ freshResult' = "NONE"
           \/ /\ fresh.on
              /\ fresh' = [fresh EXCEPT !.resp = out.resp]
              /\ freshResult' = out.result
           \/ /\ ~fresh.on
              /\ ~Reverts(response, data)
              /\ UNCHANGED twinVars

NextTwin == SendValidPacket \/ SendCorruptPacket \/ SendBadLength \/ FeedByteTwin

SpecTwin == Init /\ [][NextTwin]_vars

PacketOf(r) == [i \in 0..(r.data_size - 1) |-> r.data[i]]

(* C27: after lw_feed_response went back to START on a refused length      *)
(* field or a checksum mismatch, each later byte gives the same result as  *)
(* it gives on a freshly initialized response fed the same bytes, and at a *)
(* SUCCESS the command id and the bytes of the packet are the same.        *)
C27_RejectedBytesForgotten ==
    (fresh.on /\ freshResult # "NONE") =>
        /\ feedResult = freshResult
        /\ feedResult = LW_RESULT_SUCCESS =>
               /\ response.command_id = fresh.resp.command_id
               /\ response.parse_state = fresh.resp.parse_state
               /\ PacketOf(response) = PacketOf(fresh.resp)

(* a packet is decoded after a longer packet was rejected for its checksum *)
C27_Witness ==
    /\ fresh.on
    /\ freshResult = LW_RESULT_SUCCESS
    /\ feedResult = LW_RESULT_SUCCESS
    /\ prevItem.kind = "badcrc"
    /\ prevItem.size > item.size
    /\ response # fresh.resp


(* lw_feed_response puts the response back to START on this step *)
RevertStep ==
    /\ fed' = fed + 1
    /\ response.parse_state \in {LW_PARSESTATE_FLAGS2, LW_PARSESTATE_PAYLOAD}
    /\ response'.parse_state = LW_PARSESTATE_START

(* C28 as stated: when the decoder goes back to START on a refused length  *)
(* field or a checksum mismatch, data_size and payload_size of the         *)
(* response are 0 again, as after lw_init_response.                        *)
C28_AccumulatorCleared ==
    [][RevertStep =>
          /\ response'.data_size = 0
          /\ response'.payload_size = 0]_vars

(* C28 amended: when the decoder goes back to START on a refused length    *)
(* field or a checksum mismatch, only parse_state is set back: data_size   *)
(* stays at the number of bytes taken (3 after a refused length field, the *)
(* payload size + 5 after a checksum mismatch) and payload_size at the     *)
(* length field of the rejected header, the bytes stay in data, and the    *)
(* command id is still UINT8_MAX.                                          *)
C28_OnlyStateSetBack ==
    [][RevertStep =>
          /\ response'.command_id = UINT8_MAX
          /\ IF response.parse_state = LW_PARSESTATE_FLAGS2
             THEN /\ response'.data_size = 3
                  /\ response'.payload_size =
                         LengthField(response.data[1], Head(wire))
                  /\ response'.data =
                         [response.data EXCEPT ![2] = Head(wire)]
             ELSE /\ response'.data_size = response.payload_size + 5
                  /\ response'.payload_size = response.payload_size
                  /\ response'.payload_size >= 1
                  /\ response'.data =
                         [response.data EXCEPT ![response.data_size] = Head(wire)]]_vars

(* a whole packet with a wrong checksum was taken and rejected *)
C28_Witness ==
    /\ item.kind = "badcrc"
    /\ fed = item.size
    /\ response.parse_state = LW_PARSESTATE_START
    /\ response.data_size = item.size
    /\ response.payload_size = item.size - 5
    /\ feedResult = LW_RESULT_AGAIN


(* ---------------------------------------------------------------------- *)
(* The decoder on an endless stream: the caller starts to read at some     *)
(* point of the traffic (what it reads first is the end of a packet, a     *)
(* cut-off packet or stray bytes), and from then on the peer sends valid   *)
(* packets back-to-back for ever.                                          *)
(* ---------------------------------------------------------------------- *)
(* (command id, write flag, payload) of the streamed packets; the last one *)
(* carries the bytes of its own header as data                             *)
SelfSimilarInput == <<5, 0, <<LW_PACKET_START_BYTE, 0, 1>>>>
SyncInputs == {<<5, 0, <<>>>>, <<7, 1, <<1, 2>>>>, SelfSimilarInput}
SyncBytes == [t \in SyncInputs |-> lw_create_packet(t[1], t[2], t[3])]

(* what is read before the first whole packet: nothing, a stray start      *)
(* byte, a header announcing a payload of 8 bytes, a packet cut off after  *)
(* its command id, and the last five bytes of the self-similar packet      *)
GarbageInputs ==
    {<<>>, <<LW_PACKET_START_BYTE>>, <<LW_PACKET_START_BYTE, 0, 2>>,
     <<LW_PACKET_START_BYTE, 192, 0, 7>>,
     SubSeq(SyncBytes[SelfSimilarInput], 5, 9)}

InitSync ==
    /\ response = lw_create_callback_device.response
    /\ request = lw_create_callback_device.request
    /\ pc = "idle"
    /\ caller = "none"
    /\ wait = NoWait
    /\ attempts = 0
    /\ result = "NONE"
    /\ wait_result = "NONE"
    /\ entryTime = Zero32
    /\ elapsed = 0
    /\ \E g \in GarbageInputs :
           /\ wire = g
           /\ item = ItemOf("garbage", 0, 0, <<>>, g)
    /\ fed = 0
    /\ prevItem = NoItem
    /\ feedResult = "NONE"
    /\ items = 0
    /\ okRun = FALSE
    /\ nSuccess = 0
    /\ lastDone = <<>>
    /\ fresh = NoTwin
    /\ freshResult = "NONE"
    /\ obs = NoObs
    /\ sendObs = NoSendObs
    /\ calls = 0
    /\ crc_data = <<>>
    /\ crc_value = <<>>
    /\ set_arg = NoSetArg
    /\ hardware_version = NoGet
    /\ token_call = NoTokenCall
    /\ alarm_a_distance = NoAlarm

(* the peer sends the next packet right behind the previous one *)
StreamPacket ==
    /\ wire = <<>>
    /\ \E t \in SyncInputs :
           /\ wire' = SyncBytes[t]
           /\ item' = ItemOf("valid", t[1], t[2], t[3], SyncBytes[t])
    /\ prevItem' = item
    /\ fed' = 0
    /\ UNCHANGED <<devVars, callVars, clockVars, callObs, feedObs, apiVars, twinVars>>

(* the caller reads one byte and hands it to lw_feed_response *)
FeedStreamByte ==
    /\ wire # <<>>
    /\ LET out == lw_feed_response(response, Head(wire))
       IN  /\ response' = out.resp
           /\ feedResult' = out.result
           /\ lastDone' = IF out.result = LW_RESULT_SUCCESS
                          THEN <<out.resp.data[3]>> ELSE lastDone
    /\ wire' = Tail(wire)
    /\ fed' = fed + 1
    /\ UNCHANGED <<request, callVars, clockVars, callObs, item, prevItem, items,
                   okRun, nSuccess, apiVars, twinVars>>

NextSync == StreamPacket \/ FeedStreamByte

(* The stream never ends and the caller never stops reading: the peer     *)
(* sends the next packet whenever the line is drained (weak fairness of    *)
(* StreamPacket), and bytes keep being read.  FeedStreamByte is enabled    *)
(* exactly when the line holds a byte, so with the first condition the     *)
(* second is weak fairness of FeedStreamByte, written without ENABLED.     *)
SpecSync ==
    /\ InitSync
    /\ [][NextSync]_vars
    /\ WF_vars(StreamPacket)
    /\ []<><<FeedStreamByte>>_vars

(* the final byte of a streamed packet was just fed *)
AtPacketEnd == item.kind = "valid" /\ fed = item.size

(* no byte of the packet after its first one is the start byte *)
NoStartByteInside(packet) ==
    \A i \in 2..Len(packet) : packet[i] # LW_PACKET_START_BYTE

PlainItem(it) ==
    it.kind = "valid" =>
        NoStartByteInside(lw_create_packet(it.command_id, it.write, it.payload))

(* C29 as stated: whatever was read first, on an endless stream of valid   *)
(* packets (payload bytes 0xAA included) there is a point from which the   *)
(* final byte of every packet gives SUCCESS.                               *)
C29_AlwaysResyncs ==
    <>[](AtPacketEnd => feedResult = LW_RESULT_SUCCESS)

(* C29 amended: the same, provided no streamed packet holds the byte 0xAA  *)
(* after its first byte.                                                   *)
C29_ResyncsOnPlainStream ==
    [](PlainItem(item)) => <>[](AtPacketEnd => feedResult = LW_RESULT_SUCCESS)

(* a packet is decoded although the one before it began inside a frame     *)
(* the decoder had open, and was lost                                      *)
C29_Witness ==
    /\ AtPacketEnd
    /\ feedResult = LW_RESULT_SUCCESS
    /\ PlainItem(item)
    /\ prevItem.kind = "valid"
    /\ PlainItem(prevItem)
    /\ ~prevItem.aligned
    /\ lastDone = <<item.command_id>>


(* ---------------------------------------------------------------------- *)
(* Noise ahead of a packet: the response is newly initialized or DONE with *)
(* an earlier packet, the line then carries a run of stray bytes and a     *)
(* packet.                                                                 *)
(* ---------------------------------------------------------------------- *)
MaxNoise == 2
StrayBytes == {0, 85, LW_PACKET_START_BYTE}
NoiseRuns == SeqsUpTo(StrayBytes, MaxNoise) \ {<<>>}

InitNoise ==
    /\ item \in ChunkBefore
    /\ response = ChunkStart(item)
    /\ request = lw_create_callback_device.request
    /\ pc = "idle"
    /\ caller = "none"
    /\ wait = NoWait
    /\ attempts = 0
    /\ result = "NONE"
    /\ wait_result = "NONE"
    /\ entryTime = Zero32
    /\ elapsed = 0
    /\ wire = <<>>
    /\ fed = item.size
    /\ prevItem = NoItem
    /\ feedResult = IF item.kind = "valid" THEN LW_RESULT_SUCCESS ELSE "NONE"
    /\ items = 0
    /\ okRun = TRUE
    /\ nSuccess = IF item.kind = "valid" THEN 1 ELSE 0
    /\ lastDone = IF item.kind = "valid" THEN <<item.command_id>> ELSE <<>>
    /\ fresh = NoTwin
    /\ freshResult = "NONE"
    /\ obs = NoObs
    /\ sendObs = NoSendObs
    /\ calls = 0
    /\ crc_data = <<>>
    /\ crc_value = <<>>
    /\ set_arg = NoSetArg
    /\ hardware_version = NoGet
    /\ token_call = NoTokenCall
    /\ alarm_a_distance = NoAlarm

(* stray bytes arrive; the item keeps them as its payload *)
SendNoiseRun ==
    \E run \in NoiseRuns : PutOnLine("noise", 0, 0, run, run)

NextNoise == SendNoiseRun \/ SendValidPacket \/ FeedByte

SpecNoise == InitNoise /\ [][NextNoise]_vars

NoStartByteIn(bytes) ==
    \A i \in 1..Len(bytes) : bytes[i] # LW_PACKET_START_BYTE

(* C30: in START a byte other than 0xAA leaves the response as it is and   *)
(* gives AGAIN; and a packet that follows a run of bytes other than 0xAA,  *)
(* the run beginning in START or right after a completed packet, is        *)
(* decoded as it is without the run: SUCCESS at its final byte, with its   *)
(* command id and its bytes in the response.                               *)
C30_NoiseDiscarded ==
    [][fed' = fed + 1 =>
          /\ (response.parse_state = LW_PARSESTATE_START
                  /\ Head(wire) # LW_PACKET_START_BYTE) =>
                 /\ response' = response
                 /\ feedResult' = LW_RESULT_AGAIN
          /\ (/\ item.kind = "valid"
              /\ fed' = item.size
              /\ prevItem.kind = "noise"
              /\ prevItem.aligned
              /\ NoStartByteIn(prevItem.payload)) =>
                 /\ feedResult' = LW_RESULT_SUCCESS
                 /\ response'.parse_state = LW_PARSESTATE_DONE
                 /\ response'.command_id = item.command_id
                 /\ response'.payload_size = Len(item.payload) + 1
                 /\ PacketOf(response') =
                        AsBuffer(PacketBytes[<<item.command_id, item.write,
                                               item.payload>>])]_vars

(* two stray bytes came right after a completed packet, and the packet     *)
(* behind them was decoded                                                 *)
C30_Witness ==
    /\ item.kind = "valid"
    /\ fed = item.size
    /\ prevItem.kind = "noise"
    /\ prevItem.aligned
    /\ prevItem.size = MaxNoise
    /\ NoStartByteIn(prevItem.payload)
    /\ nSuccess = 2
    /\ feedResult = LW_RESULT_SUCCESS
    /\ lastDone = <<item.command_id>>


(* C31: lw_send_request_get_response never changes device->request: while *)
(* it runs and when it has returned, whatever the outcome, the request is  *)
(* the one the call started with, and every serial_send is handed the      *)
(* request's buffer and its full data_size.                                *)
C31_RequestUntouched ==
    [][(caller = "request" /\ calls' = calls) =>
          /\ request' = request
          /\ sendObs'.sends > sendObs.sends =>
                 /\ sendObs'.sent = <<[data |-> request.data,
                                       size |-> request.data_size]>>
                 /\ request.data_size = Len(lw_create_packet(request.command_id, 0, <<>>))
                 /\ RequestBytes(request) =
                        lw_create_packet(request.command_id, 0, <<>>)]_vars

(* every attempt was made and the request is still the packet built        *)
C31_Witness ==
    /\ caller = "request"
    /\ pc = "idle"
    /\ result = LW_RESULT_EXCEEDED_RETRIES
    /\ sendObs.sends = LW_REQUEST_RETRIES
    /\ sendObs.sent = <<[data |-> request.data, size |-> request.data_size]>>
    /\ RequestBytes(request) = lw_create_packet(request.command_id, 0, <<>>)


(* ---------------------------------------------------------------------- *)
(* The managed layer over a port that writes short: the send callback of   *)
(* GRF250Serial returns what port->write returned, here a count below the  *)
(* size it was asked to write (a single byte, or all bytes but one).       *)
(* ---------------------------------------------------------------------- *)
ShortWrites == {1, request.data_size - 1}

SendAttemptShort == SendAttemptWith(ShortWrites)

NextShort ==
    \/ CallRequest \/ SendAttemptShort \/ WaitIter \/ Tick
    \/ DeviceSends \/ DeviceSendsJunk

SpecShort == Init /\ [][NextShort]_vars

(* C32: an attempt whose send reported a count that is not 0 and is below  *)
(* request.data_size is not treated as sent: lw_send_request_get_response  *)
(* does not enter the wait for a response after it, and never returns      *)
(* SUCCESS on it.  (Under SpecShort every send reports such a count.)      *)
C32_ShortSendNotSent ==
    [][/\ sendObs'.sends > sendObs.sends => pc' # "wait"
       /\ caller' = "request" => result' # LW_RESULT_SUCCESS]_vars


(* ---------------------------------------------------------------------- *)
(* lw_grf250_reset and lw_grf250_save_parameters: lw_grf250_get_token,     *)
(* then lw_grf250_set_reset or lw_grf250_set_save_parameters with the      *)
(* token read (SpecToken).                                                 *)
(* ---------------------------------------------------------------------- *)
LW_GRF250_COMMAND_TOKEN == 10
LW_GRF250_COMMAND_SAVE_PARAMETERS == 12
LW_GRF250_COMMAND_RESET == 14

TokenOps == {"reset", "save_parameters"}

WriteCommand(op) ==
    IF op = "reset" THEN LW_GRF250_COMMAND_RESET
    ELSE LW_GRF250_COMMAND_SAVE_PARAMETERS

(* LW_CHECK_COMMAND_ID, then lw_parse_response_uint16(response, token, 0)  *)
lw_grf250_parse_response_token(resp) ==
    IF resp.command_id # LW_GRF250_COMMAND_TOKEN
    THEN [result |-> LW_RESULT_INCORRECT_COMMAND_ID, token |-> 0]
    ELSE LET bytes == lw_parse_packet_data(resp.data, 2, 0)
         IN  [result |-> LW_RESULT_SUCCESS, token |-> bytes[1] + 256 * bytes[2]]

(* the entry of lw_grf250_reset / lw_grf250_save_parameters: token = 0,    *)
(* lw_grf250_get_token up to the entry of lw_send_request_get_response     *)
CallTokenOp ==
    /\ pc = "idle"
    /\ token_call.step \in {"none", "done"}
    /\ calls < MaxCalls
    /\ calls' = calls + 1
    /\ request' = lw_create_request_read(request, LW_GRF250_COMMAND_TOKEN)
    /\ attempts' = LW_REQUEST_RETRIES
    /\ caller' = "request"
    /\ pc' = "send"
    /\ result' = "NONE"
    /\ wait_result' = "NONE"
    /\ sendObs' = NoSendObs
    /\ \E op \in TokenOps :
           token_call' = [op |-> op, step |-> "token", token |-> 0, read |-> "NONE"]
    /\ UNCHANGED <<response, wait, clockVars, lineVars, feedObs, obs, crc_data,
                   crc_value, set_arg, hardware_version, twinVars, alarm_a_distance>>

(* lw_send_request_get_response has returned to lw_grf250_get_token: the   *)
(* rest of lw_grf250_get_token, LW_CHECK_SUCCESS on its result, and        *)
(* lw_grf250_set_reset / lw_grf250_set_save_parameters up to the entry of  *)
(* lw_send_request_get_response                                            *)
TokenReadReturns ==
    /\ pc = "idle"
    /\ token_call.step = "token"
    /\ LET out == IF result = LW_RESULT_SUCCESS
                  THEN lw_grf250_parse_response_token(response)
                  ELSE [result |-> result, token |-> 0]
       IN  IF out.result = LW_RESULT_SUCCESS
           THEN /\ token_call' = [token_call EXCEPT !.step = "write",
                                                    !.token = out.token,
                                                    !.read = out.result]
                /\ set_arg' = [op |-> token_call.op, value |-> out.token]
                /\ request' = lw_create_request_write_uint16(
                                  request, WriteCommand(token_call.op), out.token)
                /\ attempts' = LW_REQUEST_RETRIES
                /\ pc' = "send"
                /\ result' = "NONE"
                /\ wait_result' = "NONE"
                /\ sendObs' = NoSendObs
           ELSE /\ token_call' = [token_call EXCEPT !.step = "done",
                                                    !.read = out.result]
                /\ result' = out.result
                /\ UNCHANGED <<request, attempts, pc, wait_result, sendObs, set_arg>>
    /\ UNCHANGED <<response, caller, wait, clockVars, lineVars, feedObs, obs, calls,
                   crc_data, crc_value, hardware_version, twinVars, alarm_a_distance>>

(* lw_send_request_get_response has returned to lw_grf250_set_...: its     *)
(* result is the result of the operation (LW_CHECK_SUCCESS, then           *)
(* return LW_RESULT_SUCCESS)                                               *)
TokenWriteReturns ==
    /\ pc = "idle"
    /\ token_call.step = "write"
    /\ token_call' = [token_call EXCEPT !.step = "done"]
    /\ UNCHANGED <<devVars, callVars, clockVars, lineVars, feedObs, callObs,
                   crc_data, crc_value, set_arg, hardware_version, twinVars, alarm_a_distance>>

(* the token the device hands out (0x1234, low byte first), and an answer  *)
(* without one                                                             *)
TokenPayloads == {<<52, 18>>, <<>>}

(* the device answers the request it received: the token for a read of     *)
(* the token, the echo of the command for a write                          *)
DeviceAnswersToken ==
    /\ wire = <<>>
    /\ pc = "wait"
    /\ \E p \in (IF request.command_id = LW_GRF250_COMMAND_TOKEN
                 THEN TokenPayloads ELSE {<<>>}) :
           LET w == IF request.command_id = LW_GRF250_COMMAND_TOKEN THEN 0 ELSE 1
               bytes == lw_create_packet(request.command_id, w, p)
           IN  /\ wire' = bytes
               /\ item' = [ItemOf("valid", request.command_id, w, p, bytes)
                              EXCEPT !.reply_to = calls]
    /\ fed' = 0
    /\ UNCHANGED <<devVars, callVars, clockVars, prevItem, feedObs, callObs, apiVars, twinVars>>

NextToken ==
    \/ CallTokenOp \/ SendAttempt \/ WaitIter \/ Tick
    \/ DeviceAnswersToken \/ TokenReadReturns \/ TokenWriteReturns

SpecToken == Init /\ [][NextToken]_vars

(* the packet of the write request carrying the two bytes at positions 4   *)
(* and 5 of the response                                                   *)
WriteOfToken(op, resp) ==
    lw_create_packet(WriteCommand(op), 1, <<resp.data[4], resp.data[5]>>)

(* C33: lw_grf250_reset and lw_grf250_save_parameters build and send their *)
(* write request only after the read of the token returned SUCCESS, the    *)
(* write carries the two token bytes of that read's response, and every    *)
(* send of the write step sends that request; when the read of the token   *)
(* fails, the operation ends with the read's result, the request is still  *)
(* the read of the token and nothing more is sent.                         *)
C33_WriteAfterTokenRead ==
    [][/\ (token_call.step = "token" /\ token_call'.step = "write") =>
              /\ result = LW_RESULT_SUCCESS
              /\ wait_result = LW_RESULT_SUCCESS
              /\ response.command_id = LW_GRF250_COMMAND_TOKEN
              /\ response' = response
              /\ RequestBytes(request') = WriteOfToken(token_call.op, response)
              /\ token_call'.token = response.data[4] + 256 * response.data[5]
              /\ sendObs'.sends = 0
       /\ (token_call.step = "token" /\ token_call'.step = "done") =>
              /\ result # LW_RESULT_SUCCESS
              /\ result' = result
              /\ request' = request
              /\ request.command_id = LW_GRF250_COMMAND_TOKEN
              /\ sendObs' = sendObs
       /\ (token_call'.step = "write" /\ sendObs'.sends > sendObs.sends) =>
              /\ sendObs'.sent = <<SendArgs(request)>>
              /\ RequestBytes(request) =
                     lw_create_packet(WriteCommand(token_call.op), 1,
                                      Uint16Bytes(token_call.token))
       /\ (token_call.step = "done" /\ token_call.read # LW_RESULT_SUCCESS
               /\ calls' = calls) =>
              UNCHANGED <<request, sendObs, result>>]_vars

(* lw_grf250_reset ended with SUCCESS after sending the write with the     *)
(* token 0x1234 the device had handed out                                  *)
C33_Witness ==
    /\ token_call = [op |-> "reset", step |-> "done", token |-> 4660,
                     read |-> LW_RESULT_SUCCESS]
    /\ result = LW_RESULT_SUCCESS
    /\ sendObs.sends >= 1
    /\ RequestBytes(request) = lw_create_packet(LW_GRF250_COMMAND_RESET, 1, <<52, 18>>)
    /\ sendObs.sent = <<SendArgs(request)>>


(* ---------------------------------------------------------------------- *)
(* Managed operations and the command id test of their parsers: a read     *)
(* (lw_grf250_get_hardware_version) and a wait for streamed data           *)
(* (lw_grf250_wait_for_streamed_distance), with the device answering and   *)
(* streaming packets of several command ids (SpecIds).                     *)
(* ---------------------------------------------------------------------- *)
LW_GRF250_COMMAND_DISTANCE_DATA == 44

(* LW_CHECK_COMMAND_ID of lw_grf250_parse_response_distance_data; the      *)
(* values it then copies are not part of the result                        *)
lw_grf250_parse_response_distance_data(resp) ==
    IF resp.command_id # LW_GRF250_COMMAND_DISTANCE_DATA
    THEN LW_RESULT_INCORRECT_COMMAND_ID
    ELSE LW_RESULT_SUCCESS

(* the entry of lw_grf250_wait_for_streamed_distance and of the wait       *)
CallWaitStreamed ==
    /\ pc = "idle"
    /\ hardware_version.state # "pending"
    /\ calls < MaxCalls
    /\ calls' = calls + 1
    /\ \E t \in WaitTimeouts :
         \E now \in (IF t # 0 THEN StartTimes ELSE {Zero32}) :
             EnterWait(LW_GRF250_COMMAND_DISTANCE_DATA, t, now)
    /\ caller' = "streamed"
    /\ result' = "NONE"
    /\ sendObs' = NoSendObs
    /\ UNCHANGED <<devVars, attempts, lineVars, feedObs, apiVars, twinVars>>

(* the rest of lw_grf250_wait_for_streamed_distance once the wait has      *)
(* returned: LW_CHECK_SUCCESS, then the parser                             *)
ReturnWaitStreamed ==
    /\ pc = "idle"
    /\ caller = "streamed"
    /\ caller' = "streamed_done"
    /\ result' = IF result = LW_RESULT_SUCCESS
                 THEN lw_grf250_parse_response_distance_data(response)
                 ELSE result
    /\ UNCHANGED <<devVars, pc, wait, attempts, wait_result, clockVars, lineVars,
                   feedObs, callObs, apiVars, twinVars>>

(* what the device streams: distance data, and packets of other commands   *)
IdStreamInputs ==
    {<<LW_GRF250_COMMAND_DISTANCE_DATA, 0, <<1, 0, 0, 0>>>>,
     <<LW_GRF250_COMMAND_HARDWARE_VERSION, 0, <<17, 34, 51, 68>>>>,
     <<5, 0, <<>>>>}

DeviceStreams ==
    /\ wire = <<>>
    /\ \E t \in IdStreamInputs :
           LET bytes == lw_create_packet(t[1], t[2], t[3])
           IN  /\ wire' = bytes
               /\ item' = ItemOf("valid", t[1], t[2], t[3], bytes)
    /\ fed' = 0
    /\ UNCHANGED <<devVars, callVars, clockVars, prevItem, feedObs, callObs, apiVars, twinVars>>

NextIds ==
    \/ CallGetHardwareVersion \/ ReturnGetHardwareVersion
    \/ CallWaitStreamed \/ ReturnWaitStreamed
    \/ SendAttempt \/ WaitIter \/ Tick \/ DeviceStreams

SpecIds == Init /\ [][NextIds]_vars

(* C34: a managed operation never returns INCORRECT_COMMAND_ID: when the   *)
(* wait or the request returned SUCCESS for the operation's command, the   *)
(* response holds a packet of that command and the parser's test passes.   *)
C34_NeverIncorrectCommandId ==
    /\ result # LW_RESULT_INCORRECT_COMMAND_ID
    /\ (pc = "idle" /\ caller = "streamed" /\ result = LW_RESULT_SUCCESS) =>
           response.command_id = LW_GRF250_COMMAND_DISTANCE_DATA
    /\ (pc = "idle" /\ hardware_version.state = "pending"
            /\ result = LW_RESULT_SUCCESS) =>
           response.command_id = LW_GRF250_COMMAND_HARDWARE_VERSION

(* a read ran before, and the streamed wait then returned SUCCESS through  *)
(* its parser after several receives                                       *)
C34_Witness ==
    /\ caller = "streamed_done"
    /\ result = LW_RESULT_SUCCESS
    /\ response.command_id = LW_GRF250_COMMAND_DISTANCE_DATA
    /\ obs.rxCalls >= MaxCount
    /\ calls = 2
    /\ hardware_version.state = "done"


(***************************************************************************)
(* Alarm A distance: the write request builder and the response parser.    *)
(* The caller's distance is drawn at the start; the request the builder    *)
(* made travels the line byte by byte into the decoder, and the parser is  *)
(* applied to the response the decoder completed.                          *)
(***************************************************************************)
LW_GRF250_COMMAND_ALARM_A_DISTANCE == 79

(* if (distance_cm > 30000)                                                *)
AlarmMaxCm == 30000

(* the distances a caller passes: the documented range and the value next  *)
(* to its end                                                              *)
AlarmDistances == 0..(AlarmMaxCm + 1)

(* a uint32_t value as its two 16-bit halves                               *)
Halves32(value) == [hi |-> value \div 65536, lo |-> value % 65536]

(* variant: the distance goes on the wire as it is *)
AlarmWireValue_cm(distance_cm) == distance_cm

(* distance_cm / 10, the value the builder hands to                        *)
(* lw_create_request_write_uint32                                          *)
AlarmWireValue(distance_cm) == distance_cm \div 10

(* lw_grf250_create_request_write_alarm_a_distance(request, distance_cm)   *)
lw_grf250_create_request_write_alarm_a_distance(req, distance_cm) ==
    IF distance_cm > AlarmMaxCm
    THEN [result |-> LW_RESULT_INVALID_PARAMETER, request |-> req]
    ELSE [result |-> LW_RESULT_SUCCESS,
          request |-> lw_create_request_write_uint32(
                          req, LW_GRF250_COMMAND_ALARM_A_DISTANCE,
                          AlarmWireValue(distance_cm))]

(* *distance_cm *= 10 on a uint32_t held as two 16-bit halves              *)
Times10(v) ==
    [hi |-> (v.hi * 10 + (v.lo * 10) \div 65536) % 65536,
     lo |-> (v.lo * 10) % 65536]

(* lw_grf250_parse_response_alarm_a_distance(response, distance_cm):       *)
(* LW_CHECK_COMMAND_ID, lw_parse_response_uint32 at offset 0, then the     *)
(* multiplication by 10                                                    *)
lw_grf250_parse_response_alarm_a_distance(resp) ==
    IF resp.command_id # LW_GRF250_COMMAND_ALARM_A_DISTANCE
    THEN [result |-> LW_RESULT_INCORRECT_COMMAND_ID, value |-> Zero32]
    ELSE LET bytes == lw_parse_packet_data(resp.data, 4, 0)
         IN  [result |-> LW_RESULT_SUCCESS,
              value |-> Times10([hi |-> bytes[3] + 256 * bytes[4],
                                 lo |-> bytes[1] + 256 * bytes[2]])]

InitAlarm ==
    /\ response = lw_create_callback_device.response
    /\ request = lw_create_callback_device.request
    /\ pc = "idle"
    /\ caller = "none"
    /\ wait = NoWait
    /\ attempts = 0
    /\ result = "NONE"
    /\ wait_result = "NONE"
    /\ entryTime = Zero32
    /\ elapsed = 0
    /\ wire = <<>>
    /\ item = NoItem
    /\ fed = 0
    /\ prevItem = NoItem
    /\ feedResult = "NONE"
    /\ items = 0
    /\ okRun = TRUE
    /\ nSuccess = 0
    /\ lastDone = <<>>
    /\ fresh = NoTwin
    /\ freshResult = "NONE"
    /\ obs = NoObs
    /\ sendObs = NoSendObs
    /\ calls = 0
    /\ crc_data = <<>>
    /\ crc_value = <<>>
    /\ \E d \in AlarmDistances :
           set_arg = [op |-> "alarm_a_distance", value |-> d]
    /\ hardware_version = NoGet
    /\ token_call = NoTokenCall
    /\ alarm_a_distance = NoAlarm

(* the caller builds the write request for its distance, once             *)
CallCreateWriteAlarmA ==
    /\ alarm_a_distance.state = "none"
    /\ calls' = calls + 1
    /\ LET out == lw_grf250_create_request_write_alarm_a_distance(
                      request, set_arg.value)
       IN  /\ request' = out.request
           /\ result' = out.result
           /\ alarm_a_distance' =
                  [state |-> IF out.result = LW_RESULT_SUCCESS
                             THEN "built" ELSE "refused",
                   result |-> "NONE", value |-> Zero32]
    /\ caller' = "alarm_a_distance"
    /\ UNCHANGED <<response, pc, wait, attempts, wait_result, clockVars, lineVars,
                   feedObs, obs, sendObs, crc_data, crc_value, set_arg,
                   hardware_version, token_call, twinVars>>

(* the bytes of the request, value included, arrive at the decoder         *)
AlarmRequestOnLine ==
    /\ alarm_a_distance.state = "built"
    /\ items < calls
    /\ PutOnLine("echo", request.command_id, 1,
                 [i \in 1..4 |-> request.data[3 + i]], RequestBytes(request))

(* the caller parses the response the decoder completed                    *)
CallParseAlarmA ==
    /\ alarm_a_distance.state = "built"
    /\ items = calls
    /\ wire = <<>>
    /\ feedResult = LW_RESULT_SUCCESS
    /\ LET out == lw_grf250_parse_response_alarm_a_distance(response)
       IN  alarm_a_distance' = [state |-> "parsed", result |-> out.result,
                                value |-> out.value]
    /\ UNCHANGED <<devVars, callVars, clockVars, lineVars, feedObs, callObs,
                   crc_data, crc_value, set_arg, hardware_version, token_call,
                   twinVars>>

NextAlarm ==
    CallCreateWriteAlarmA \/ AlarmRequestOnLine \/ FeedByte \/ CallParseAlarmA

SpecAlarm == InitAlarm /\ [][NextAlarm]_vars

(* C35 as stated: for every alarm A distance d in 0..30000 cm accepted by  *)
(* lw_grf250_create_request_write_alarm_a_distance, decoding the 32-bit    *)
(* value it puts on the wire with                                          *)
(* lw_grf250_parse_response_alarm_a_distance returns d                     *)
C35_RoundTripExact ==
    alarm_a_distance.state = "parsed"
        => /\ alarm_a_distance.result = LW_RESULT_SUCCESS
           /\ alarm_a_distance.value = Halves32(set_arg.value)

(* C35: for every alarm A distance d in 0..30000 cm accepted by            *)
(* lw_grf250_create_request_write_alarm_a_distance, decoding the 32-bit    *)
(* value it puts on the wire with                                          *)
(* lw_grf250_parse_response_alarm_a_distance succeeds and returns d        *)
(* rounded down to a multiple of 10 cm, so it returns d exactly when d is  *)
(* a multiple of 10; a distance above 30000 is refused with                *)
(* LW_RESULT_INVALID_PARAMETER and puts nothing on the wire                *)
C35_RoundTripTensOfCm ==
    /\ alarm_a_distance.state = "parsed"
           => /\ set_arg.value \in 0..AlarmMaxCm
              /\ alarm_a_distance.result = LW_RESULT_SUCCESS
              /\ alarm_a_distance.value = Halves32((set_arg.value \div 10) * 10)
              /\ (alarm_a_distance.value = Halves32(set_arg.value))
                     <=> (set_arg.value % 10 = 0)
    /\ alarm_a_distance.state = "refused"
           => /\ set_arg.value > AlarmMaxCm
              /\ result = LW_RESULT_INVALID_PARAMETER
              /\ request = lw_create_callback_device.request
    /\ alarm_a_distance.state = "built"
           => /\ set_arg.value \in 0..AlarmMaxCm
              /\ result = LW_RESULT_SUCCESS

(* a distance of 29999 cm was written, travelled the line and was parsed   *)
(* as 29990 cm                                                             *)
C35_Witness ==
    /\ set_arg.value = 29999
    /\ alarm_a_distance.state = "parsed"
    /\ alarm_a_distance.result = LW_RESULT_SUCCESS
    /\ alarm_a_distance.value = Halves32(29990)
    /\ nSuccess = 1

=============================================================================
